---------------------------- MODULE Spec2Model ----------------------------
(***************************************************************************)
(* Q-Boxing: the per-frame loop of game/match.py (Game.run), the tick       *)
(* resolution Game.resolve_step and the fighter operations of               *)
(* game/character.py.                                                       *)
(*                                                                          *)
(* Units.  Life, energy, costs and damage are floats in the source; here    *)
(* they are integers counted in hundredths (MAX_LIFE = 200.0 is 20000).     *)
(* knockout_vulnerability is counted in thousandths (0.001 is 1).  Arm      *)
(* lengths and ray parameters are whole pixels, the clock is milliseconds.  *)
(*                                                                          *)
(* Geometry and randomness.  Positions are real-valued and are not part of  *)
(* the combat state below: every value the tick derives from them (is the   *)
(* pair farther apart than ENGAGE_DIST, the ray/circle parameter of a       *)
(* started punch, the segment/circle hit test) is an input of the tick,     *)
(* and so is every random draw (the action chosen, the evasion roll, the    *)
(* damage roll, the knockout roll).  An input is drawn only where the code  *)
(* consumes it.                                                             *)
(*                                                                          *)
(* Learning.  get_state is modelled on whole-pixel positions and followed   *)
(* on its own (SpecEnc).  Inside a tick the two state indices and the       *)
(* reward of _compute_reward are inputs; the terminal bonus and the Q       *)
(* update are computed from them.  Only the first QRows rows of the table   *)
(* are kept.  epsilon is not followed: the action chosen is an input.       *)
(***************************************************************************)
EXTENDS Integers, Sequences, FiniteSets, TLC

\* ------------------------------------------------------------------ config
MAX_ROUNDS == 12
ROUND_TIME_SEC == 60
BETWEEN_ROUND_MS == 1400

MAX_LIFE == 20000
MAX_ENERGY == 10000

ARM_RETRACT == 28
ARM_SHORT == 82
ARM_MED == 105
ARM_LONG == 132

PUNCH_FRAMES == 10
CD_SHORT == 42
CD_MED == 68
CD_LONG == 86

COST_SHORT == 2000
COST_MED == 3000
\* COUNTER_DAMAGE_BONUS = 0.25, in hundredths
COST_LONG == 5000
COUNTER_DAMAGE_BONUS == 25
COUNTER_ARM_LOCK_FRAMES == 14

DODGE_FRAMES == 14
DODGE_CD == 180
DODGE_COST == 2400

REGEN_IDLE == 55
REGEN_MOVE == 20

CARRY_DAMAGE_PER_LOSS == 1800
\* Character.__init__: knockout_vulnerability = 0.001; _end_round_by_ko: += 0.001
MIN_START_LIFE == 7000
KO_VULN_INIT == 1
\* Game.__init__ / _reset_round: max_distance_allowance = 260.0, floor 120.0, step 10.0
KO_VULN_STEP == 1
ALLOWANCE_START == 260
ALLOWANCE_FLOOR == 120
ALLOWANCE_STEP == 10
\* cfg.ACTIONS (ACTIONS is a reserved word)
LATE_ROUND_SEC == 10
ACTION_NAMES == << "move_up", "move_down", "move_left", "move_right",
                   "punch_short_L", "punch_short_R",
                   "punch_medium_L", "punch_medium_R",
                   "punch_long_L", "punch_long_R",
                   "dodge", "do_nothing" >>

ActionSet == { ACTION_NAMES[i] : i \in 1..Len(ACTION_NAMES) }

\* The ray misses the circle: contact proxy float("inf").
\* The arena and the state encoding.
Inf == 1000000
WIDTH == 800
HEIGHT == 600
DIST_BINS == 10
DXDY_BINS == 9
ENERGY_BINS == 6
CD_BINS == 4
TIME_BINS == 4
BOOL_BITS == 5
SIGN3_DEADZONE == 12
CD_BIN_1 == 25
CD_BIN_2 == 55
\* Q-learning.  ALPHA and GAMMA are in hundredths; rewards and table entries
LOW_ENERGY == 1800
\* are in ten-thousandths, and a product is rounded to the nearest one (the
\* model's stand-in for the rounding of floating-point arithmetic and of the
\* float32 table).
ALPHA == 13
GAMMA == 92
R_WIN == 700000
R_LOSE == 0 - R_WIN

\* Exploration rate, in billionths; EPSILON_DECAY is in hundred-thousandths.
EPSILON_START == 260000000
EPSILON_MIN == 60000000
EPSILON_DECAY == 99955

\* Rows of the Q-table that are followed (the table has N_STATES rows).
QRows == 2
QStates == 0..(QRows - 1)

\* Movement and step rewards: positions in millionths of a pixel, rewards in
\* ten-thousandths.
PX == 1000000
MAX_DECALS == 450
DECAL_LIFETIME_MS == 12000
TRAIL_DURATION_MS == 2400
TRAIL_DROP_EVERY_MS == 80
HEAD_SIZE == 110
SPEED == 4150000
\* tenths
DODGE_SPEED_MULT == 21
SPAWN_MARGIN == 140
ENGAGE_DIST == 360
ENGAGE_SPAN == 260
ENGAGE_OPENING_MS == 2000
\* ENGAGE_FORCE * SPEED * 1.15
ENGAGE_PULL == 2768050
\* ENGAGE_OPENING_FORCE * SPEED * 1.15
ENGAGE_OPENING_PULL == 4533875
\* SPEED * 0.18
JITTER == 747000
BODY_GAP_PX == 14
R_BASE == 0 - 600
\* per hundredth of damage
R_DAMAGE == 115
R_TAKEN == 130
R_COUNTER == 35000
R_COUNTERED == 0 - 35000
\* thousandths, per pixel
R_CLOSE == 85
R_FAR_PUNCH_MISS == 0 - 10500
R_IDLE_FAR == 0 - 1200
R_FAR_STEP == 0 - 1000
R_LOW_ENERGY_WASTE == 0 - 1200
R_LATE_FAR == 0 - 1200

Sides == {"red", "blue"}
Other(s) == IF s = "red" THEN "blue" ELSE "red"

\* ------------------------------------------------------------ math_utils
Max(a, b) == IF a >= b THEN a ELSE b
Min(a, b) == IF a <= b THEN a ELSE b

clamp(v, lo, hi) == IF v < lo THEN lo ELSE IF v > hi THEN hi ELSE v

\* ------------------------------------------------------------- Character
\* The state of one fighter after Character.__init__, spawned where red is.
\* x is followed only where a specification says so (line); y stays at
\* HEIGHT // 2 there.
CharacterInit ==
    [ life |-> MAX_LIFE, energy |-> MAX_ENERGY,
      arm_len_left |-> ARM_RETRACT, arm_len_right |-> ARM_RETRACT,
      punch_timer_left |-> 0, punch_timer_right |-> 0, punch_cd |-> 0,
      arm_lock_left |-> 0, arm_lock_right |-> 0,
      dodge_cd |-> 0, dodge_timer |-> 0,
      knocked_out |-> FALSE, knockout_vulnerability |-> KO_VULN_INIT,
      round_lost |-> FALSE, carry_damage |-> 0,
      counter_window |-> 0,
      epsilon |-> EPSILON_START,
      q_table |-> [ i \in QStates |-> [ a \in ActionSet |-> 0 ] ],
      x |-> SPAWN_MARGIN * PX, initial_x |-> SPAWN_MARGIN * PX,
      trail_until_ms |-> 0, trail_next_drop_ms |-> 0 ]

\* Blue after Character.__init__: it spawns at WIDTH - 140.
BlueInit ==
    [ CharacterInit EXCEPT !.x = (WIDTH - SPAWN_MARGIN) * PX,
                           !.initial_x = (WIDTH - SPAWN_MARGIN) * PX ]

\* ---- Character.get_state: dx, dy are opponent minus self, in pixels.
sign3(x) == IF x > SIGN3_DEADZONE THEN 1 ELSE IF x < 0 - SIGN3_DEADZONE THEN -1 ELSE 0

\* max_d squared; max_d = hypot(WIDTH, HEIGHT).
MaxDSq == WIDTH * WIDTH + HEIGHT * HEIGHT

\* int((d / max_d) * n) with d = hypot(dx, dy): the k with
\* k * max_d <= n * d < (k + 1) * max_d, compared as squares.
FloorScaledDist(dx, dy, n) ==
    CHOOSE k \in 0..(n + 1) :
      /\ k * k * MaxDSq <= n * n * (dx * dx + dy * dy)
      /\ n * n * (dx * dx + dy * dy) < (k + 1) * (k + 1) * MaxDSq

DistBinNoClamp(dx, dy) == FloorScaledDist(dx, dy, DIST_BINS)

dist_bin(dx, dy) == clamp(FloorScaledDist(dx, dy, DIST_BINS - 1), 0, DIST_BINS - 1)

dxdy_bin(dx, dy) == (sign3(dy) + 1) * 3 + (sign3(dx) + 1)

energy_bin(energy) ==
    clamp(((ENERGY_BINS - 1) * energy) \div MAX_ENERGY, 0, ENERGY_BINS - 1)

cd_bin(punch_cd) ==
    IF punch_cd = 0 THEN 0
    ELSE IF punch_cd < CD_BIN_1 THEN 1
    ELSE IF punch_cd < CD_BIN_2 THEN 2
    ELSE 3

\* frac = tl / ROUND_TIME_SEC against 0.75, 0.50, 0.25
t_bin(time_left) ==
    LET tl == clamp(time_left, 0, ROUND_TIME_SEC)
    IN IF 4 * tl > 3 * ROUND_TIME_SEC THEN 0
       ELSE IF 4 * tl > 2 * ROUND_TIME_SEC THEN 1
       ELSE IF 4 * tl > ROUND_TIME_SEC THEN 2
       ELSE 3

Bit(b) == IF b THEN 1 ELSE 0

bool_bits(f) ==
    16 * Bit(f.punch_cd = 0) + 8 * Bit(f.dodge_cd = 0)
      + 4 * Bit(f.counter_window > 0) + 2 * Bit(f.energy < LOW_ENERGY)
      + Bit(f.arm_lock_left > 0 \/ f.arm_lock_right > 0)

_calc_n_states ==
    (DIST_BINS * DXDY_BINS * ENERGY_BINS * ENERGY_BINS * CD_BINS * TIME_BINS)
      * (2 ^ BOOL_BITS)

get_state(f, opponent, dx, dy, tl) ==
    LET i1 == dist_bin(dx, dy)
        i2 == i1 * DXDY_BINS + dxdy_bin(dx, dy)
        i3 == i2 * ENERGY_BINS + energy_bin(f.energy)
        i4 == i3 * ENERGY_BINS + energy_bin(opponent.energy)
        i5 == i4 * CD_BINS + cd_bin(f.punch_cd)
        i6 == i5 * TIME_BINS + t_bin(tl)
    IN i6 * (2 ^ BOOL_BITS) + bool_bits(f)

\* hypot(WIDTH, HEIGHT) in millionths of a pixel (1000 px).
MaxDLine == 1000 * PX

\* The least d, in millionths of a pixel, with int((d / max_d) * n) >= k.
DistBinEdge(k, n) == k * (MaxDLine \div n) + (k * (MaxDLine % n) + n - 1) \div n

\* dist_bin for two fighters on one horizontal line (dy = 0), d = |dx| in
\* millionths of a pixel.
dist_bin_line(d) ==
    Cardinality({ k \in 1..(DIST_BINS - 1) : d >= DistBinEdge(k, DIST_BINS - 1) })

\* Character.get_state for two fighters on one horizontal line; dxm is
\* opponent.x - self.x in millionths of a pixel.
get_state_line(f, opponent, dxm, tl) ==
    LET sx == IF dxm > SIGN3_DEADZONE * PX THEN 1
              ELSE IF dxm < 0 - SIGN3_DEADZONE * PX THEN -1 ELSE 0
        d == IF dxm < 0 THEN 0 - dxm ELSE dxm
        i1 == dist_bin_line(d)
        i2 == i1 * DXDY_BINS + (3 + (sx + 1))
        i3 == i2 * ENERGY_BINS + energy_bin(f.energy)
        i4 == i3 * ENERGY_BINS + energy_bin(opponent.energy)
        i5 == i4 * CD_BINS + cd_bin(f.punch_cd)
        i6 == i5 * TIME_BINS + t_bin(tl)
    IN i6 * (2 ^ BOOL_BITS) + bool_bits(f)

Dec(n) == IF n > 0 THEN n - 1 ELSE n

\* Mutant of tick_timers: no knockout transition.
TickTimersNoKnockout(f) ==
    LET ptl == Dec(f.punch_timer_left)
        ptr == Dec(f.punch_timer_right)
    IN [ f EXCEPT
           !.punch_cd = Dec(@),
           !.dodge_cd = Dec(@),
           !.dodge_timer = Dec(@),
           !.punch_timer_left = ptl,
           !.arm_len_left = IF f.punch_timer_left > 0 /\ ptl = 0 THEN ARM_RETRACT ELSE @,
           !.punch_timer_right = ptr,
           !.arm_len_right = IF f.punch_timer_right > 0 /\ ptr = 0 THEN ARM_RETRACT ELSE @,
           !.arm_lock_left = Dec(@),
           !.arm_lock_right = Dec(@),
           !.counter_window = Dec(@) ]

\* Mutant of tick_timers: the arm locks do not run down.
TickTimersLocksStay(f) ==
    LET ptl == Dec(f.punch_timer_left)
        ptr == Dec(f.punch_timer_right)
        ko  == f.life <= 0 /\ ~f.knocked_out
    IN [ f EXCEPT
           !.punch_cd = Dec(@),
           !.dodge_cd = Dec(@),
           !.dodge_timer = Dec(@),
           !.punch_timer_left = ptl,
           !.arm_len_left = IF f.punch_timer_left > 0 /\ ptl = 0 THEN ARM_RETRACT ELSE @,
           !.punch_timer_right = ptr,
           !.arm_len_right = IF f.punch_timer_right > 0 /\ ptr = 0 THEN ARM_RETRACT ELSE @,
           !.life = IF ko THEN 0 ELSE @,
           !.knocked_out = IF ko THEN TRUE ELSE @,
           !.counter_window = Dec(@) ]

tick_timers(f) ==
    LET ptl == Dec(f.punch_timer_left)
        ptr == Dec(f.punch_timer_right)
        ko  == f.life <= 0 /\ ~f.knocked_out
    IN [ f EXCEPT
           !.punch_cd = Dec(@),
           !.dodge_cd = Dec(@),
           !.dodge_timer = Dec(@),
           !.punch_timer_left = ptl,
           !.arm_len_left = IF f.punch_timer_left > 0 /\ ptl = 0 THEN ARM_RETRACT ELSE @,
           !.punch_timer_right = ptr,
           !.arm_len_right = IF f.punch_timer_right > 0 /\ ptr = 0 THEN ARM_RETRACT ELSE @,
           !.life = IF ko THEN 0 ELSE @,
           !.knocked_out = IF ko THEN TRUE ELSE @,
           !.arm_lock_left = Dec(@),
           !.arm_lock_right = Dec(@),
           !.counter_window = Dec(@) ]

\* attempt_dodge: the fighter after the call (unchanged when it fails).
dodge_ok(f) == f.energy >= DODGE_COST /\ f.dodge_cd = 0

\* Mutant of attempt_dodge: the dodge is paid for although it is refused.
AttemptDodgePaysOnFail(f) ==
    IF f.energy >= DODGE_COST /\ f.dodge_cd = 0
    THEN [ f EXCEPT !.energy = @ - DODGE_COST,
                    !.dodge_cd = DODGE_CD,
                    !.dodge_timer = DODGE_FRAMES ]
    ELSE [ f EXCEPT !.energy = Max(0, @ - DODGE_COST) ]

attempt_dodge(f) ==
    IF dodge_ok(f)
    THEN [ f EXCEPT !.energy = @ - DODGE_COST,
                    !.dodge_cd = DODGE_CD,
                    !.dodge_timer = DODGE_FRAMES ]
    ELSE f

\* epsilon * EPSILON_DECAY, rounded up to the next billionth.
TimesDecay(eps) ==
    eps - ( (eps \div 100000) * (100000 - EPSILON_DECAY)
            + ((eps % 100000) * (100000 - EPSILON_DECAY)) \div 100000 )

\* Mutant of decay_epsilon: no floor.
DecayEpsilonNoFloor(f) ==
    [ f EXCEPT !.epsilon = TimesDecay(@) ]

decay_epsilon(f) ==
    [ f EXCEPT !.epsilon = Max(EPSILON_MIN, TimesDecay(@)) ]

\* Lines 243-244 of attempt_dodge: how far the burst moves the fighter, in
\* millionths of a pixel (move_vec is a unit vector); 0 when the dodge fails.
dodge_burst(f) ==
    IF dodge_ok(f) THEN (SPEED * DODGE_SPEED_MULT * 6) \div 10 ELSE 0

PunchCost(kind) == IF kind = "short" THEN COST_SHORT
                   ELSE IF kind = "medium" THEN COST_MED ELSE COST_LONG
PunchCd(kind) == IF kind = "short" THEN CD_SHORT
                 ELSE IF kind = "medium" THEN CD_MED ELSE CD_LONG
PunchArmLen(kind) == IF kind = "short" THEN ARM_SHORT
                     ELSE IF kind = "medium" THEN ARM_MED ELSE ARM_LONG

\* Mutant of attempt_punch: a refused punch still sets the cooldown.
AttemptPunchCooldownOnFail(f, kind, arm) ==
    IF ~( /\ f.punch_cd = 0
          /\ f.energy >= PunchCost(kind)
          /\ ~(f.punch_timer_left > 0 \/ f.punch_timer_right > 0)
          /\ IF arm = "left" THEN f.arm_lock_left = 0 ELSE f.arm_lock_right = 0 )
    THEN [ f EXCEPT !.punch_cd = PunchCd(kind) ]
    ELSE IF arm = "left"
    THEN [ f EXCEPT !.energy = @ - PunchCost(kind), !.punch_cd = PunchCd(kind),
                    !.arm_len_left = PunchArmLen(kind),
                    !.punch_timer_left = PUNCH_FRAMES ]
    ELSE [ f EXCEPT !.energy = @ - PunchCost(kind), !.punch_cd = PunchCd(kind),
                    !.arm_len_right = PunchArmLen(kind),
                    !.punch_timer_right = PUNCH_FRAMES ]

\* Mutant of attempt_punch: a started punch sets no cooldown.
AttemptPunchNoCooldown(f, kind, arm) ==
    IF ~( /\ f.punch_cd = 0
          /\ f.energy >= PunchCost(kind)
          /\ ~(f.punch_timer_left > 0 \/ f.punch_timer_right > 0)
          /\ IF arm = "left" THEN f.arm_lock_left = 0 ELSE f.arm_lock_right = 0 )
    THEN f
    ELSE IF arm = "left"
    THEN [ f EXCEPT !.energy = @ - PunchCost(kind),
                    !.arm_len_left = PunchArmLen(kind),
                    !.punch_timer_left = PUNCH_FRAMES ]
    ELSE [ f EXCEPT !.energy = @ - PunchCost(kind),
                    !.arm_len_right = PunchArmLen(kind),
                    !.punch_timer_right = PUNCH_FRAMES ]

\* Mutant of attempt_punch: a started punch extends both arms.
AttemptPunchBothArms(f, kind, arm) ==
    IF ~( /\ f.punch_cd = 0
          /\ f.energy >= PunchCost(kind)
          /\ ~(f.punch_timer_left > 0 \/ f.punch_timer_right > 0)
          /\ IF arm = "left" THEN f.arm_lock_left = 0 ELSE f.arm_lock_right = 0 )
    THEN f
    ELSE [ f EXCEPT !.energy = @ - PunchCost(kind), !.punch_cd = PunchCd(kind),
                    !.arm_len_left = PunchArmLen(kind),
                    !.punch_timer_left = PUNCH_FRAMES,
                    !.arm_len_right = PunchArmLen(kind),
                    !.punch_timer_right = PUNCH_FRAMES ]

\* Mutant of punch_ok: a running cooldown does not refuse the punch.
PunchOkNoCooldown(f, kind, arm) ==
    /\ f.energy >= PunchCost(kind)
    /\ ~(f.punch_timer_left > 0 \/ f.punch_timer_right > 0)
    /\ IF arm = "left" THEN f.arm_lock_left = 0 ELSE f.arm_lock_right = 0

\* attempt_punch with preferred_arm given (every punch action names its arm).
punch_ok(f, kind, arm) ==
    /\ f.punch_cd = 0
    /\ f.energy >= PunchCost(kind)
    /\ ~(f.punch_timer_left > 0 \/ f.punch_timer_right > 0)
    /\ IF arm = "left" THEN f.arm_lock_left = 0 ELSE f.arm_lock_right = 0

attempt_punch(f, kind, arm) ==
    IF ~punch_ok(f, kind, arm) THEN f
    ELSE IF arm = "left"
    THEN [ f EXCEPT !.energy = @ - PunchCost(kind), !.punch_cd = PunchCd(kind),
                    !.arm_len_left = PunchArmLen(kind),
                    !.punch_timer_left = PUNCH_FRAMES ]
    ELSE [ f EXCEPT !.energy = @ - PunchCost(kind), !.punch_cd = PunchCd(kind),
                    !.arm_len_right = PunchArmLen(kind),
                    !.punch_timer_right = PUNCH_FRAMES ]

cancel_punch_arm(f, arm) ==
    IF arm = "left"
    THEN [ f EXCEPT !.punch_timer_left = 0, !.arm_len_left = ARM_RETRACT ]
    ELSE [ f EXCEPT !.punch_timer_right = 0, !.arm_len_right = ARM_RETRACT ]

\* Mutant of lock_arm: the lock also opens the fighter's counter window.
LockArmOpensWindow(f, arm, frames) ==
    LET fr == Max(0, frames)
    IN IF arm = "left"
       THEN [ f EXCEPT !.arm_lock_left = Max(@, fr), !.arm_lock_right = 0,
                       !.counter_window = fr ]
       ELSE [ f EXCEPT !.arm_lock_right = Max(@, fr), !.arm_lock_left = 0,
                       !.counter_window = fr ]

\* Mutant of lock_arm: the lock lasts one frame longer.
LockArmOneMore(f, arm, frames) ==
    LET fr == Max(0, frames) + 1
    IN IF arm = "left"
       THEN [ f EXCEPT !.arm_lock_left = Max(@, fr), !.arm_lock_right = 0 ]
       ELSE [ f EXCEPT !.arm_lock_right = Max(@, fr), !.arm_lock_left = 0 ]

lock_arm(f, arm, frames) ==
    LET fr == Max(0, frames)
    IN IF arm = "left"
       THEN [ f EXCEPT !.arm_lock_left = Max(@, fr), !.arm_lock_right = 0 ]
       ELSE [ f EXCEPT !.arm_lock_right = Max(@, fr), !.arm_lock_left = 0 ]

\* Mutant of reset: the exploration rate starts over with the round.
ResetRestartsEpsilon(f) ==
    LET c1 == IF f.round_lost THEN f.carry_damage + CARRY_DAMAGE_PER_LOSS
              ELSE f.carry_damage
        max_carry == Max(0, MAX_LIFE - MIN_START_LIFE)
        c2 == clamp(c1, 0, max_carry)
    IN [ f EXCEPT
           !.carry_damage = c2,
           !.life = Max(MIN_START_LIFE, MAX_LIFE - c2),
           !.energy = MAX_ENERGY,
           !.knocked_out = FALSE,
           !.punch_cd = 0, !.dodge_cd = 0, !.dodge_timer = 0,
           !.arm_len_left = ARM_RETRACT, !.arm_len_right = ARM_RETRACT,
           !.punch_timer_left = 0, !.punch_timer_right = 0,
           !.arm_lock_left = 0, !.arm_lock_right = 0,
           !.round_lost = FALSE,
           !.counter_window = 0,
           !.trail_until_ms = 0, !.trail_next_drop_ms = 0,
           !.x = f.initial_x,
           !.epsilon = EPSILON_START ]

\* Mutant of reset: the carried damage grows whether or not the round was lost.
ResetCarryAlways(f) ==
    LET c1 == f.carry_damage + CARRY_DAMAGE_PER_LOSS
        max_carry == Max(0, MAX_LIFE - MIN_START_LIFE)
        c2 == clamp(c1, 0, max_carry)
    IN [ f EXCEPT
           !.carry_damage = c2,
           !.life = Max(MIN_START_LIFE, MAX_LIFE - c2),
           !.energy = MAX_ENERGY,
           !.knocked_out = FALSE,
           !.punch_cd = 0, !.dodge_cd = 0, !.dodge_timer = 0,
           !.arm_len_left = ARM_RETRACT, !.arm_len_right = ARM_RETRACT,
           !.punch_timer_left = 0, !.punch_timer_right = 0,
           !.arm_lock_left = 0, !.arm_lock_right = 0,
           !.round_lost = FALSE,
           !.counter_window = 0,
           !.trail_until_ms = 0, !.trail_next_drop_ms = 0,
           !.x = f.initial_x ]

\* Mutant of reset: the carried damage is added to the starting life.
ResetCarryAdds(f) ==
    LET c1 == IF f.round_lost THEN f.carry_damage + CARRY_DAMAGE_PER_LOSS
              ELSE f.carry_damage
    IN [ f EXCEPT
           !.carry_damage = c1,
           !.life = MAX_LIFE + c1,
           !.energy = MAX_ENERGY,
           !.knocked_out = FALSE,
           !.punch_cd = 0, !.dodge_cd = 0, !.dodge_timer = 0,
           !.arm_len_left = ARM_RETRACT, !.arm_len_right = ARM_RETRACT,
           !.punch_timer_left = 0, !.punch_timer_right = 0,
           !.arm_lock_left = 0, !.arm_lock_right = 0,
           !.round_lost = FALSE,
           !.counter_window = 0,
           !.trail_until_ms = 0, !.trail_next_drop_ms = 0,
           !.x = f.initial_x ]

reset(f) ==
    LET c1 == IF f.round_lost THEN f.carry_damage + CARRY_DAMAGE_PER_LOSS
              ELSE f.carry_damage
        max_carry == Max(0, MAX_LIFE - MIN_START_LIFE)
        c2 == clamp(c1, 0, max_carry)
    IN [ f EXCEPT
           !.carry_damage = c2,
           !.life = Max(MIN_START_LIFE, MAX_LIFE - c2),
           !.energy = MAX_ENERGY,
           !.knocked_out = FALSE,
           !.punch_cd = 0, !.dodge_cd = 0, !.dodge_timer = 0,
           !.arm_len_left = ARM_RETRACT, !.arm_len_right = ARM_RETRACT,
           !.punch_timer_left = 0, !.punch_timer_right = 0,
           !.arm_lock_left = 0, !.arm_lock_right = 0,
           !.round_lost = FALSE,
           !.counter_window = 0,
           !.trail_until_ms = 0, !.trail_next_drop_ms = 0,
           !.x = f.initial_x ]

\* GroundDecal as far as the collection goes: GroundDecal.born_ms, and
\* which of the two appends made it.
Decal(born_ms, kind) == [ born_ms |-> born_ms, kind |-> kind ]

\* Character.start_trail: the trail window opens at now_ms.
start_trail(f, now_ms) ==
    [ f EXCEPT !.trail_until_ms = now_ms + TRAIL_DURATION_MS,
               !.trail_next_drop_ms = now_ms ]

\* Character.maybe_drop_trail.  moved: whether the fighter is at least
\* TRAIL_DROP_MIN_DIST away from where its trail last dropped or started.
\* The result is the fighter and the list it appended to.
maybe_drop_trail(f, now_ms, moved, decals_list) ==
    IF now_ms >= f.trail_until_ms \/ now_ms < f.trail_next_drop_ms \/ ~moved
    THEN [ f |-> f, decals |-> decals_list ]
    ELSE [ f |-> [ f EXCEPT !.trail_next_drop_ms = now_ms + TRAIL_DROP_EVERY_MS ],
           decals |-> Append(decals_list, Decal(now_ms, "trail")) ]

\* ------------------------------------------------------------------ state
VARIABLES
    red, blue,                 \* Game.red, Game.blue: the two Character objects
    rounds_played, red_score, blue_score,
    game_over, round_over, round_over_until_ms,
    time_left, last_second_tick, round_start_ms,
    max_distance_allowance,
    now,                       \* pygame.time.get_ticks() as read by the last frame
    tick_no,                   \* history: ticks resolved in the current round
    ko_losses,                 \* history: rounds each side lost by knockout
    countered,                 \* history: per side, the arm last countered in this
                               \* round and the ticks resolved since (0: none)
    last,                      \* history: what the last frame did (the tick's locals)
    enc,                       \* the encoder's inputs that are not state (the
                               \* positions) and the indices it returned
    twin,                      \* one tick resolved twice from one state: the
                               \* positions and inputs, and what each ends with
    ground_decals,             \* Game.ground_decals: the deque of GroundDecal,
                               \* oldest first (followed where decals is set)
    plane,                     \* the fighters' centers (x, y) followed through
                               \* the position changes of ticks and resets
    punched                    \* history: per side, the cooldown of the punch last
                               \* started in this round (0: none) and the ticks
                               \* resolved since that start

vars == << red, blue, rounds_played, red_score, blue_score, game_over, round_over,
           round_over_until_ms, time_left, last_second_tick, round_start_ms,
           max_distance_allowance, now, tick_no, ko_losses, countered, last, enc, twin,
           ground_decals, plane, punched >>

\* The program state as one value; the operators below map world to world.
World ==
    [ red |-> red, blue |-> blue,
      rounds_played |-> rounds_played, red_score |-> red_score,
      blue_score |-> blue_score, game_over |-> game_over,
      round_over |-> round_over, round_over_until_ms |-> round_over_until_ms,
      time_left |-> time_left, last_second_tick |-> last_second_tick,
      round_start_ms |-> round_start_ms,
      max_distance_allowance |-> max_distance_allowance,
      ground_decals |-> ground_decals ]

\* ---------------------------------------------------------- Game: actions
_in_punch_action(a) ==
    a \in {"punch_short_L", "punch_short_R", "punch_medium_L", "punch_medium_R",
           "punch_long_L", "punch_long_R"}

IsMove(a) == a \in {"move_up", "move_down", "move_left", "move_right"}

\* _parse_punch_action: (kind, arm) of a punch action
PunchKind(a) == IF a \in {"punch_short_L", "punch_short_R"} THEN "short"
                ELSE IF a \in {"punch_medium_L", "punch_medium_R"} THEN "medium"
                ELSE "long"
PunchArm(a) == IF a \in {"punch_short_L", "punch_medium_L", "punch_long_L"}
               THEN "left" ELSE "right"

_punch_max_len(kind) == PunchArmLen(kind)

\* ------------------------------------------------- Game: damage and rounds
\* Mutant of _check_early_victory: only red's lead is looked at.
CheckEarlyVictoryRedOnly(W) ==
    W.red_score > W.blue_score + (MAX_ROUNDS - W.rounds_played)

_check_early_victory(W) ==
    LET rounds_left == MAX_ROUNDS - W.rounds_played
    IN \/ W.red_score > W.blue_score + rounds_left
       \/ W.blue_score > W.red_score + rounds_left

\* Mutant of the tail of the round endings: only an early victory ends the match.
CloseRoundEarlyOnly(W) ==
    LET W1 == [ W EXCEPT !.rounds_played = @ + 1 ]
    IN IF _check_early_victory(W1) THEN [ W1 EXCEPT !.game_over = TRUE ] ELSE W1

\* The tail shared by both round endings: rounds_played += 1, then game_over.
CloseRound(W) ==
    LET W1 == [ W EXCEPT !.rounds_played = @ + 1 ]
    IN IF _check_early_victory(W1) THEN [ W1 EXCEPT !.game_over = TRUE ]
       ELSE IF W1.rounds_played >= MAX_ROUNDS THEN [ W1 EXCEPT !.game_over = TRUE ]
       ELSE W1

\* Mutant of _end_round_by_time: equal lives award nobody.
EndRoundByTimeTieNone(W, n) ==
    LET W0 == [ W EXCEPT !.round_over = TRUE,
                         !.round_over_until_ms = n + BETWEEN_ROUND_MS ]
        W1 == IF W0.red.life > W0.blue.life
              THEN [ W0 EXCEPT !.red_score = @ + 1, !.blue.round_lost = TRUE ]
              ELSE IF W0.blue.life > W0.red.life
              THEN [ W0 EXCEPT !.blue_score = @ + 1, !.red.round_lost = TRUE ]
              ELSE W0
    IN CloseRound(W1)

_end_round_by_time(W, n) ==
    LET W0 == [ W EXCEPT !.round_over = TRUE,
                         !.round_over_until_ms = n + BETWEEN_ROUND_MS ]
        W1 == IF W0.red.life > W0.blue.life
              THEN [ W0 EXCEPT !.red_score = @ + 1, !.blue.round_lost = TRUE ]
              ELSE IF W0.blue.life > W0.red.life
              THEN [ W0 EXCEPT !.blue_score = @ + 1, !.red.round_lost = TRUE ]
              ELSE [ W0 EXCEPT !.red_score = @ + 1, !.blue_score = @ + 1 ]
    IN CloseRound(W1)

\* Mutant of _end_round_by_ko: the loser's vulnerability is left as it was.
EndRoundByKoNoVuln(W, n) ==
    LET W0 == [ W EXCEPT !.round_over = TRUE,
                         !.round_over_until_ms = n + BETWEEN_ROUND_MS ]
        W1 == IF W0.red.life <= 0 /\ W0.blue.life <= 0 THEN W0
              ELSE IF W0.red.life <= 0
              THEN [ W0 EXCEPT !.blue_score = @ + 1, !.red.round_lost = TRUE ]
              ELSE IF W0.blue.life <= 0
              THEN [ W0 EXCEPT !.red_score = @ + 1, !.blue.round_lost = TRUE ]
              ELSE W0
    IN CloseRound(W1)

\* Mutant of _end_round_by_ko: the overlay is held for no time at all.
EndRoundByKoNoDelay(W, n) ==
    LET W0 == [ W EXCEPT !.round_over = TRUE, !.round_over_until_ms = n ]
        W1 == IF W0.red.life <= 0 /\ W0.blue.life <= 0 THEN W0
              ELSE IF W0.red.life <= 0
              THEN [ W0 EXCEPT !.blue_score = @ + 1,
                               !.red.knockout_vulnerability = @ + KO_VULN_STEP,
                               !.red.round_lost = TRUE ]
              ELSE IF W0.blue.life <= 0
              THEN [ W0 EXCEPT !.red_score = @ + 1,
                               !.blue.knockout_vulnerability = @ + KO_VULN_STEP,
                               !.blue.round_lost = TRUE ]
              ELSE W0
    IN CloseRound(W1)

_end_round_by_ko(W, n) ==
    LET W0 == [ W EXCEPT !.round_over = TRUE,
                         !.round_over_until_ms = n + BETWEEN_ROUND_MS ]
        W1 == IF W0.red.life <= 0 /\ W0.blue.life <= 0 THEN W0
              ELSE IF W0.red.life <= 0
              THEN [ W0 EXCEPT !.blue_score = @ + 1,
                               !.red.knockout_vulnerability = @ + KO_VULN_STEP,
                               !.red.round_lost = TRUE ]
              ELSE IF W0.blue.life <= 0
              THEN [ W0 EXCEPT !.red_score = @ + 1,
                               !.blue.knockout_vulnerability = @ + KO_VULN_STEP,
                               !.blue.round_lost = TRUE ]
              ELSE W0
    IN CloseRound(W1)

_reset_round(W, n) ==
    [ W EXCEPT !.red = reset(@), !.blue = reset(@),
               !.time_left = ROUND_TIME_SEC,
               !.last_second_tick = n,
               !.round_over = FALSE,
               !.max_distance_allowance = ALLOWANCE_START,
               !.round_start_ms = n ]

\* Mutant of the while loop of _update_clock: one second a call at most.
ClockLoopOnce(W, n) ==
    IF n - W.last_second_tick >= 1000
    THEN LET W1 == [ W EXCEPT !.last_second_tick = @ + 1000, !.time_left = @ - 1 ]
         IN IF W1.time_left <= 0
            THEN _end_round_by_time([ W1 EXCEPT !.time_left = 0 ], n)
            ELSE W1
    ELSE W

\* _update_clock's while loop: one second per full 1000 ms, ending the round at 0.
RECURSIVE ClockLoop(_, _)
ClockLoop(W, n) ==
    IF n - W.last_second_tick >= 1000
    THEN LET W1 == [ W EXCEPT !.last_second_tick = @ + 1000, !.time_left = @ - 1 ]
         IN IF W1.time_left <= 0
            THEN _end_round_by_time([ W1 EXCEPT !.time_left = 0 ], n)
            ELSE ClockLoop(W1, n)
    ELSE W

\* Mutant of _update_clock: the round clock stands still.
UpdateClockStopped(W, n) == W

\* Mutant of _update_clock: the seconds are counted between rounds too.
UpdateClockBetweenRounds(W, n) ==
    IF W.game_over THEN W ELSE ClockLoop(W, n)

_update_clock(W, n) ==
    IF W.game_over \/ W.round_over THEN W ELSE ClockLoop(W, n)

\* _apply_damage: the defender after a hit of dmg; ko is the outcome of
\* random.random() < defender.knockout_vulnerability.
_apply_damage(d, dmg, ko) ==
    LET d1 == [ d EXCEPT !.life = Max(0, @ - dmg) ]
    IN IF ko THEN [ d1 EXCEPT !.life = 0, !.knocked_out = TRUE ] ELSE d1

\* Mutant of _try_punch_hit: the dodge window is ignored.
TryPunchHitNoEvade(defender, evade, geo) == geo

\* _try_punch_hit: evade is the outcome of random.random() < DODGE_EVADE_PROB,
\* geo the outcome of segment_circle_hit.
_try_punch_hit(defender, evade, geo) ==
    IF defender.dodge_timer > 0 /\ evade THEN FALSE ELSE geo

\* ------------------------------------------------------ Game.resolve_step
\* A pair of fighters is a function on Sides; Pair(W) reads it from a world.
Pair(W) == [ s \in Sides |-> IF s = "red" THEN W.red ELSE W.blue ]

\* Lines 404-413: a dodge action calls attempt_dodge.
DodgeStep(F, a) ==
    [ s \in Sides |-> IF a[s] = "dodge" THEN attempt_dodge(F[s]) ELSE F[s] ]

\* _start_punch_with_alignment: the attacker after the call and its intent.
\* t is the ray/circle parameter (Inf: the ray misses the defender's circle).
_start_punch_with_alignment(attacker, action_name, t) ==
    IF ~_in_punch_action(action_name)
    THEN [ f |-> attacker, started |-> FALSE, arm |-> "none", contact_t |-> Inf ]
    ELSE LET kind == PunchKind(action_name)
             arm  == PunchArm(action_name)
         IN IF ~punch_ok(attacker, kind, arm)
            THEN [ f |-> attacker, started |-> FALSE, arm |-> "none", contact_t |-> Inf ]
            ELSE LET f1 == attempt_punch(attacker, kind, arm)
                     new_len == clamp(t, ARM_RETRACT, _punch_max_len(kind))
                 IN IF t # Inf
                    THEN [ f |-> IF arm = "left"
                                 THEN [ f1 EXCEPT !.arm_len_left = new_len ]
                                 ELSE [ f1 EXCEPT !.arm_len_right = new_len ],
                           started |-> TRUE, arm |-> arm, contact_t |-> t ]
                    ELSE [ f |-> f1, started |-> TRUE, arm |-> arm, contact_t |-> Inf ]

\* Whether the punch action of a fighter would start (attempt_punch succeeds).
WouldStart(f, action_name) ==
    /\ _in_punch_action(action_name)
    /\ punch_ok(f, PunchKind(action_name), PunchArm(action_name))

\* Mutant of SortIntents: blue is first when the proxies are equal.
SortIntentsBlueOnTie(I) ==
    IF I["blue"].contact_t <= I["red"].contact_t
    THEN << "blue", "red" >> ELSE << "red", "blue" >>

\* Mutant of SortIntents: the intents are not sorted, red is always first.
SortIntentsRedFirst(I) == << "red", "blue" >>

\* sorted([red_intent, blue_intent], key=contact_t): the sort is stable, so red
\* stays first when the proxies are equal.
SortIntents(I) ==
    IF I["blue"].contact_t < I["red"].contact_t
    THEN << "blue", "red" >> ELSE << "red", "blue" >>

same_side(I) ==
    /\ I["red"].started /\ I["blue"].started
    /\ I["red"].arm # "none"
    /\ I["red"].arm = I["blue"].arm

\* The state of the resolution loop (lines 460-519) before its first pass.
LoopInit(F) ==
    [ F |-> F,
      dmg |-> [ s \in Sides |-> 0 ],
      roll |-> [ s \in Sides |-> 0 ],
      did_counter |-> [ s \in Sides |-> FALSE ],
      got_countered |-> [ s \in Sides |-> FALSE ],
      canceled |-> [ s \in Sides |-> FALSE ],
      tested |-> [ s \in Sides |-> FALSE ],
      evaded |-> [ s \in Sides |-> FALSE ],
      geo |-> [ s \in Sides |-> FALSE ],
      connected |-> [ s \in Sides |-> FALSE ] ]

\* Mutant of ReachesHitTest: a fighter whose life is 0 still punches.
ReachesHitTestNoLife(S, I, order, i) ==
    /\ ~S.canceled[order[i]]
    /\ I[order[i]].started /\ I[order[i]].arm \in {"left", "right"}

\* Whether pass i of the loop reaches the hit test (none of the three
\* `continue` guards of lines 482-487 applies).
ReachesHitTest(S, I, order, i) ==
    LET p == order[i]
    IN /\ ~S.canceled[p]
       /\ ~(S.F[p].life <= 0 \/ S.F[Other(p)].life <= 0)
       /\ I[p].started /\ I[p].arm \in {"left", "right"}

\* Mutant of CounterBoost: the bonus is not applied.
CounterBoostNone(dmg) == dmg

\* The counter multiplier of line 500: dmg *= 1.0 + COUNTER_DAMAGE_BONUS.
CounterBoost(dmg) == (dmg * (100 + COUNTER_DAMAGE_BONUS)) \div 100

\* Mutant of IsCounter: the pass need not be the first.
IsCounterAnyPass(S, I, order, i) ==
    /\ same_side(I)
    /\ I[Other(order[i])].started /\ I[Other(order[i])].arm = I[order[i]].arm
    /\ ~S.canceled[Other(order[i])]

\* Whether the connecting pass i is a same-side counter (lines 497-499).
IsCounter(S, I, order, i) ==
    /\ same_side(I) /\ i = 1
    /\ I[order[2]].started /\ I[order[2]].arm = I[order[1]].arm
    /\ ~S.canceled[order[2]]

\* One pass of the loop for intent order[i]; d = [evade, geo, roll, ko] are the
\* draws the pass consumes.
ProcessIntent(S, I, order, i, d) ==
    IF ~ReachesHitTest(S, I, order, i) THEN S
    ELSE
      LET p == order[i]
          o == Other(p)
          evaded == S.F[o].dodge_timer > 0 /\ d.evade
          hit == _try_punch_hit(S.F[o], d.evade, d.geo)
          S0 == [ S EXCEPT !.tested[p] = TRUE, !.evaded[p] = evaded,
                           !.geo[p] = d.geo ]
      IN IF ~hit THEN S0
         ELSE
           LET counter == IsCounter(S, I, order, i)
               dmg == IF counter THEN CounterBoost(d.roll) ELSE d.roll
               o1 == IF counter
                     THEN lock_arm(cancel_punch_arm(S.F[o], I[o].arm),
                                   I[o].arm, COUNTER_ARM_LOCK_FRAMES)
                     ELSE S.F[o]
               o2 == _apply_damage(o1, dmg, d.ko)
           IN [ S0 EXCEPT
                  !.F[o] = o2,
                  !.connected[p] = TRUE,
                  !.roll[p] = d.roll,
                  !.canceled[o] = IF counter THEN TRUE ELSE @,
                  !.did_counter[p] = IF counter THEN TRUE ELSE @,
                  !.got_countered[o] = IF counter THEN TRUE ELSE @,
                  !.dmg[p] = @ + dmg ]

\* Mutant of Regen: the regeneration is not capped at max_energy.
RegenNoCap(f, action_name, far) ==
    [ f EXCEPT !.energy =
        @ + (IF IsMove(action_name) \/ f.dodge_timer > 0 \/ far
             THEN REGEN_MOVE ELSE REGEN_IDLE) ]

\* Lines 529-534: energy regeneration; far says the engagement force is nonzero.
Moved(f, action_name, far) == IsMove(action_name) \/ f.dodge_timer > 0 \/ far

Regen(f, action_name, far) ==
    [ f EXCEPT !.energy = Min(MAX_ENERGY,
                  @ + (IF Moved(f, action_name, far) THEN REGEN_MOVE ELSE REGEN_IDLE)) ]

\* Mutant of the shrinking of the allowance: no floor.
ShrinkAllowanceNoFloor(W) ==
    IF W.time_left <= LATE_ROUND_SEC
    THEN [ W EXCEPT !.max_distance_allowance = @ - ALLOWANCE_STEP ]
    ELSE W

\* Lines 579-580.
ShrinkAllowance(W) ==
    IF W.time_left <= LATE_ROUND_SEC
    THEN [ W EXCEPT !.max_distance_allowance = Max(ALLOWANCE_FLOOR, @ - ALLOWANCE_STEP) ]
    ELSE W

\* Mutant of the terminal reward: the fighter knocked out is not penalised.
TerminalRewardNoLose(r, f, o) ==
    IF f.life <= 0 /\ o.life <= 0 THEN r
    ELSE IF o.life <= 0 THEN r + R_WIN
    ELSE r

\* Lines 552-562: the reward r of fighter f against o once the tick is done.
TerminalReward(r, f, o) ==
    IF f.life <= 0 /\ o.life <= 0 THEN r
    ELSE IF o.life <= 0 THEN r + R_WIN
    ELSE IF f.life <= 0 THEN r + R_LOSE
    ELSE r

\* n / d rounded to the nearest integer (d > 0 and even).
RoundDiv(n, d) == (n + d \div 2) \div d

\* q_table[i]: the table is np.zeros((n_states, len(ACTIONS))) to begin with,
\* and a row that was never written is not kept.
Row(q, i) == IF i \in DOMAIN q THEN q[i] ELSE [ a \in ActionSet |-> 0 ]

\* q_table[s].max()
MaxQ(row) ==
    CHOOSE v \in { row[a] : a \in ActionSet } : \A a \in ActionSet : row[a] <= v

\* The entry of a table row at the 0-based index i of Config.ACTIONS.
RowAt(row, i) == row[ACTION_NAMES[i + 1]]

\* Mutant of argmax: the last of several maximal entries.
ArgmaxLast(row) ==
    CHOOSE i \in 0..(Len(ACTION_NAMES) - 1) :
      /\ RowAt(row, i) = MaxQ(row)
      /\ \A j \in (i + 1)..(Len(ACTION_NAMES) - 1) : RowAt(row, j) # MaxQ(row)

\* np.argmax: the index of the first maximal entry.
argmax(row) ==
    CHOOSE i \in 0..(Len(ACTION_NAMES) - 1) :
      /\ RowAt(row, i) = MaxQ(row)
      /\ \A j \in 0..(i - 1) : RowAt(row, j) # MaxQ(row)

\* A value of random.random() that is not below any epsilon, in billionths.
NO_EXPLORE == 999999999

\* choose_action: u is what random.random() returns (in billionths) and k what
\* random.randint(0, len(ACTIONS) - 1) returns if it is called.
choose_action(f, state_idx, u, k) ==
    IF u < f.epsilon THEN k ELSE argmax(Row(f.q_table, state_idx))

QUpdateIgnoreDone(q, st, a, r, st2, done) ==
    LET old == q[st][a]
        nxt == MaxQ(q[st2])
    IN [ q EXCEPT ![st][a] =
           old + RoundDiv(ALPHA * (r + RoundDiv(GAMMA * nxt, 100) - old), 100) ]

\* Mutant of the Q update: the entry of the next state is written as well.
QUpdateBothRows(q, st, a, r, st2, done) ==
    LET old == Row(q, st)[a]
        nxt == MaxQ(Row(q, st2))
        target == r + (IF done THEN 0 ELSE RoundDiv(GAMMA * nxt, 100))
        new == old + RoundDiv(ALPHA * (target - old), 100)
    IN [ i \in DOMAIN q \cup { st, st2 } |->
           IF i \in { st, st2 } THEN [ Row(q, i) EXCEPT ![a] = new ] ELSE q[i] ]

\* Lines 567-574: old and nxt are read, then the entry is written.
QUpdate(q, st, a, r, st2, done) ==
    LET old == Row(q, st)[a]
        nxt == MaxQ(Row(q, st2))
        target == r + (IF done THEN 0 ELSE RoundDiv(GAMMA * nxt, 100))
        new == old + RoundDiv(ALPHA * (target - old), 100)
    IN [ i \in DOMAIN q \cup { st } |->
           IF i = st THEN [ Row(q, st) EXCEPT ![a] = new ] ELSE q[i] ]

\* Lines 529-539: the fighters once the energy is regenerated and tick_timers
\* has run; S is the loop's final state.
AfterTimers(S, a, far) == [ s \in Sides |-> tick_timers(Regen(S.F[s], a[s], far)) ]

\* resolve_step after the loop: regeneration, timers, rewards, the Q update,
\* the allowance; S is the loop's final state.  L gives per side the state
\* index before the tick (st), the one after it (st2) and the reward of
\* _compute_reward (r).  The result is the world, `done` and the rewards.
\* learn: whether the Q-tables and epsilon are followed.  The tick writes
\* them and only choose_action reads them; its result being an input (acts),
\* a specification that leaves them at their initial value has the same
\* behaviours in every other variable.
FinishStep(W, S, a, far, L, learn) ==
    LET F1 == AfterTimers(S, a, far)
        done == F1["red"].life <= 0 \/ F1["blue"].life <= 0
        r == [ s \in Sides |-> TerminalReward(L[s].r, F1[s], F1[Other(s)]) ]
        F2 == [ s \in Sides |->
                 [ F1[s] EXCEPT !.q_table =
                     IF learn THEN QUpdate(@, L[s].st, a[s], r[s], L[s].st2, done)
                     ELSE @ ] ]
        F3 == [ s \in Sides |-> IF learn THEN decay_epsilon(F2[s]) ELSE F2[s] ]
        W1 == ShrinkAllowance([ W EXCEPT !.red = F3["red"], !.blue = F3["blue"] ])
    IN [ W |-> W1, done |-> done, r |-> r ]

\* ------------------------------------------- movement and step reward
\* Positions are in millionths of a pixel.  Both fighters stand on one
\* horizontal line, as at the spawn (y = HEIGHT // 2 for both), and move along
\* it: dist is |dx|, the unit vector of the engagement force is +1 or -1, and
\* the vertical moves, the sideways dodge burst and the vertical jitter are
\* left out.  Rewards are in ten-thousandths.
Abs(n) == IF n < 0 THEN 0 - n ELSE n
Sign(n) == IF n > 0 THEN 1 ELSE IF n < 0 THEN -1 ELSE 0

radius == (HEAD_SIZE * PX) \div 2

\* The x component of _action_to_move; jit is the jitter drawn (0 when
\* random.random() >= 0.08 or the jitter is vertical).
_action_to_move(action_name, jit) ==
    (IF action_name = "move_left" THEN 0 - SPEED
     ELSE IF action_name = "move_right" THEN SPEED ELSE 0)
    + (IF IsMove(action_name) THEN jit ELSE 0)

\* _engagement_force(a, b, now_ms) times SPEED * 1.15 (lines 422-425): what the
\* force adds to a's x, a standing at ax and b at bx; elapsed is
\* now_ms - round_start_ms.  The distance is taken in whole pixels.
_engagement_force(ax, bx, elapsed) ==
    LET d == Abs(bx - ax)
        pull == IF elapsed < ENGAGE_OPENING_MS THEN ENGAGE_OPENING_PULL ELSE ENGAGE_PULL
    IN IF d = 0 \/ d < ENGAGE_DIST * PX THEN 0
       ELSE Sign(bx - ax)
            * RoundDiv(pull * Min((d \div PX) - ENGAGE_DIST, ENGAGE_SPAN), ENGAGE_SPAN)

\* Character.clamp_inside, x only.
clamp_inside(x) == clamp(x, radius, WIDTH * PX - radius)

\* Lines 415-449 of resolve_step: the moves, the engagement force, the clamp
\* and the separation of overlapping bodies.  x maps a side to its position.
MoveStep(Fs, x, a, jit, elapsed) ==
    LET e == [ s \in Sides |-> _engagement_force(x[s], x[Other(s)], elapsed) ]
        mv == [ s \in Sides |->
                 IF Fs[s].dodge_timer > 0
                 THEN (_action_to_move(a[s], jit[s]) * DODGE_SPEED_MULT) \div 10
                 ELSE _action_to_move(a[s], jit[s]) ]
        x1 == [ s \in Sides |-> clamp_inside(x[s] + mv[s] + e[s]) ]
        dx == x1["blue"] - x1["red"]
        d == Abs(dx)
        min_d == 2 * radius + BODY_GAP_PX * PX
        push == (min_d - d) \div 2
        x2 == [ s \in Sides |->
                 clamp_inside(x1[s] + (IF s = "red" THEN 0 - Sign(dx) ELSE Sign(dx)) * push) ]
    IN [ x |-> IF d < min_d /\ d > 0 THEN x2 ELSE x1, e |-> e ]

\* _compute_reward; distances in millionths of a pixel, damage in hundredths.
\* Lines 195-196: the low-energy-waste term of the reward.
low_energy_waste(self_char, action_name) ==
    IF /\ self_char.energy < 1500
       /\ action_name \in {"punch_long_L", "punch_long_R", "dodge",
                           "punch_medium_L", "punch_medium_R"}
    THEN R_LOW_ENERGY_WASTE ELSE 0

_compute_reward(self_char, action_name, dmg_dealt, dmg_taken, dist_before, dist_after, tl, did_counter, got_countered, allowance) ==
    R_BASE
    + R_DAMAGE * dmg_dealt
    - R_TAKEN * dmg_taken
    + (IF did_counter THEN R_COUNTER ELSE 0)
    + (IF got_countered THEN R_COUNTERED ELSE 0)
    + (IF dist_before > 210 * PX
       THEN RoundDiv(R_CLOSE * Max(0, dist_before - dist_after), 100000) ELSE 0)
    + (IF dist_before > ENGAGE_DIST * PX THEN R_FAR_STEP ELSE 0)
    + (IF /\ _in_punch_action(action_name) /\ dmg_dealt <= 0
          /\ dist_before > _punch_max_len(PunchKind(action_name)) * PX + radius
       THEN R_FAR_PUNCH_MISS ELSE 0)
    + (IF action_name = "do_nothing" /\ dist_before > 250 * PX /\ self_char.energy > 3500
       THEN R_IDLE_FAR ELSE 0)
    + low_energy_waste(self_char, action_name)
    + (IF tl <= LATE_ROUND_SEC /\ dist_before > allowance * PX THEN R_LATE_FAR ELSE 0)

\* resolve_step for two fighters on one line that throw no punch and do not
\* dodge (a maps a side to do_nothing, move_left or move_right): the positions,
\* lives, energies and rewards it ends with.  elapsed is what
\* pygame.time.get_ticks() - round_start_ms is when line 415 reads the clock.
StepOnLine(Fs, x, a, jit, elapsed, tl, allowance) ==
    LET dist_before == Abs(x["blue"] - x["red"])
        M == MoveStep(Fs, x, a, jit, elapsed)
        dist_after == Abs(M.x["blue"] - M.x["red"])
        F1 == [ s \in Sides |-> tick_timers(Regen(Fs[s], a[s], M.e[s] # 0)) ]
        r == [ s \in Sides |->
                TerminalReward(
                  _compute_reward(F1[s], a[s], 0, 0, dist_before, dist_after, tl,
                                  FALSE, FALSE, allowance),
                  F1[s], F1[Other(s)]) ]
    IN [ x |-> M.x,
         life |-> [ s \in Sides |-> F1[s].life ],
         energy |-> [ s \in Sides |-> F1[s].energy ],
         r |-> r ]

\* ----------------------------------------------- movement in the plane
\* Centers as records [x, y] in hundredths of a pixel.  Distances are taken
\* to a tenth of a pixel; unit vectors have components in thousandths.
CPX == 100

RECURSIVE SqrtFloor(_, _, _)
SqrtFloor(n, lo, hi) ==
    IF lo >= hi THEN lo
    ELSE LET mid == (lo + hi + 1) \div 2
         IN IF mid * mid <= n THEN SqrtFloor(n, mid, hi) ELSE SqrtFloor(n, lo, mid - 1)

\* math.hypot(dx, dy)
hypot(dx, dy) ==
    10 * SqrtFloor((Abs(dx) \div 10) * (Abs(dx) \div 10)
                   + (Abs(dy) \div 10) * (Abs(dy) \div 10), 0, 12000)

\* n / d towards zero (d > 0).
Quot(n, d) == Sign(n) * (Abs(n) \div d)

\* (dx / d, dy / d)
UnitVec(dx, dy, d) == [ x |-> Quot(dx * 1000, d), y |-> Quot(dy * 1000, d) ]

\* v scaled by len / 1000
Scaled(v, len) == [ x |-> Quot(v.x * len, 1000), y |-> Quot(v.y * len, 1000) ]

Plus(p, v) == [ x |-> p.x + v.x, y |-> p.y + v.y ]
Minus(p, v) == [ x |-> p.x - v.x, y |-> p.y - v.y ]

\* Mutant of clamp_inside: only x is clamped.
ClampInsideXOnly(p) ==
    [ x |-> clamp(p.x, (HEAD_SIZE * CPX) \div 2, WIDTH * CPX - (HEAD_SIZE * CPX) \div 2),
      y |-> p.y ]

\* Character.clamp_inside
clamp_inside_xy(p) ==
    [ x |-> clamp(p.x, (HEAD_SIZE * CPX) \div 2, WIDTH * CPX - (HEAD_SIZE * CPX) \div 2),
      y |-> clamp(p.y, (HEAD_SIZE * CPX) \div 2, HEIGHT * CPX - (HEAD_SIZE * CPX) \div 2) ]

\* update_facing and lines 404-413 of resolve_step: the move_vec handed to
\* attempt_dodge, the facing direction turned by +pi/2 for red and by -pi/2
\* for blue.  atan2(0, 0) is 0.
dodge_vec(s, p, o) ==
    LET d == hypot(o.x - p.x, o.y - p.y)
        u == IF d = 0 THEN [ x |-> 1000, y |-> 0 ] ELSE UnitVec(o.x - p.x, o.y - p.y, d)
    IN IF s = "red" THEN [ x |-> 0 - u.y, y |-> u.x ] ELSE [ x |-> u.y, y |-> 0 - u.x ]

\* Lines 242-244 of attempt_dodge, for a dodge that is granted.
dodge_move(p, move_vec) ==
    clamp_inside_xy(Plus(p, Scaled(move_vec,
                        ((SPEED * DODGE_SPEED_MULT * 6) \div 10) \div (PX \div CPX))))

\* _action_to_move; jit is the jitter drawn, "none" when random.random() >= 0.08.
_action_to_move_xy(action_name, jit) ==
    LET sp == SPEED \div (PX \div CPX)
        j == JITTER \div (PX \div CPX)
        m == IF action_name = "move_up" THEN [ x |-> 0, y |-> 0 - sp ]
             ELSE IF action_name = "move_down" THEN [ x |-> 0, y |-> sp ]
             ELSE IF action_name = "move_left" THEN [ x |-> 0 - sp, y |-> 0 ]
             ELSE IF action_name = "move_right" THEN [ x |-> sp, y |-> 0 ]
             ELSE [ x |-> 0, y |-> 0 ]
        jv == IF jit = "x+" THEN [ x |-> j, y |-> 0 ]
              ELSE IF jit = "x-" THEN [ x |-> 0 - j, y |-> 0 ]
              ELSE IF jit = "y+" THEN [ x |-> 0, y |-> j ]
              ELSE IF jit = "y-" THEN [ x |-> 0, y |-> 0 - j ]
              ELSE [ x |-> 0, y |-> 0 ]
    IN IF IsMove(action_name) THEN Plus(m, jv) ELSE m

\* _engagement_force(a, b, now_ms) times SPEED * 1.15, elapsed being
\* now_ms - round_start_ms.
_engagement_force_xy(a, b, elapsed) ==
    LET d == hypot(b.x - a.x, b.y - a.y)
        pull == IF elapsed < ENGAGE_OPENING_MS THEN ENGAGE_OPENING_PULL ELSE ENGAGE_PULL
        len == RoundDiv(pull * Min(d \div CPX - ENGAGE_DIST, ENGAGE_SPAN), ENGAGE_SPAN)
                 \div (PX \div CPX)
    IN IF d = 0 \/ d < ENGAGE_DIST * CPX THEN [ x |-> 0, y |-> 0 ]
       ELSE Scaled(UnitVec(b.x - a.x, b.y - a.y, d), len)

\* Lines 396-449 of resolve_step, the position changes of a tick: p maps a
\* side to its center, a to its action, ok to whether its dodge is granted
\* (energy and cooldown allow it), active to whether its dodge_timer is running
\* from an earlier tick, jit to the jitter drawn for it.
MovePlane(p, a, ok, active, jit, elapsed) ==
    LET p1 == [ s \in Sides |->
                 IF a[s] = "dodge" /\ ok[s]
                 THEN dodge_move(p[s], dodge_vec(s, p[s], p[Other(s)]))
                 ELSE p[s] ]
        e == [ s \in Sides |-> _engagement_force_xy(p1[s], p1[Other(s)], elapsed) ]
        m == [ s \in Sides |->
                LET v == _action_to_move_xy(a[s], jit[s])
                IN IF active[s] \/ (a[s] = "dodge" /\ ok[s])
                   THEN [ x |-> (v.x * DODGE_SPEED_MULT) \div 10,
                          y |-> (v.y * DODGE_SPEED_MULT) \div 10 ]
                   ELSE v ]
        p2 == [ s \in Sides |-> clamp_inside_xy(Plus(Plus(p1[s], m[s]), e[s])) ]
        dx == p2["blue"].x - p2["red"].x
        dy == p2["blue"].y - p2["red"].y
        d == hypot(dx, dy)
        min_d == (HEAD_SIZE + BODY_GAP_PX) * CPX
        push == Scaled(UnitVec(dx, dy, d), (min_d - d) \div 2)
        p3 == [ s \in Sides |->
                 clamp_inside_xy(IF s = "red" THEN Minus(p2[s], push) ELSE Plus(p2[s], push)) ]
        sep == d < min_d /\ d > 0
    IN [ p |-> IF sep THEN p3 ELSE p2,
         dodged |-> [ s \in Sides |-> a[s] = "dodge" /\ ok[s] ],
         pulled |-> [ s \in Sides |-> e[s] # [ x |-> 0, y |-> 0 ] ],
         raw |-> [ s \in Sides |-> IF sep
                                    THEN (IF s = "red" THEN Minus(p2[s], push)
                                          ELSE Plus(p2[s], push))
                                    ELSE Plus(Plus(p1[s], m[s]), e[s]) ],
         separated |-> sep ]

\* Game.__init__, lines 44-59: where the fighters are spawned, and where
\* Character.reset puts them back.
Spawn ==
    [ s \in Sides |->
       [ x |-> (IF s = "red" THEN SPAWN_MARGIN ELSE WIDTH - SPAWN_MARGIN) * CPX,
         y |-> (HEIGHT \div 2) * CPX ] ]

NoPlane ==
    [ event |-> "none", n |-> 0, p |-> Spawn,
      a |-> [ s \in Sides |-> "do_nothing" ],
      dodged |-> [ s \in Sides |-> FALSE ],
      pulled |-> [ s \in Sides |-> FALSE ],
      raw |-> Spawn,
      separated |-> FALSE ]

\* ------------------------------------------------------------ Game.run
\* What a frame that resolves no tick leaves in `last`.
NoTick(event) ==
    [ event |-> event,
      a |-> [ s \in Sides |-> "do_nothing" ],
      started |-> [ s \in Sides |-> FALSE ],
      arm |-> [ s \in Sides |-> "none" ],
      contact_t |-> [ s \in Sides |-> Inf ],
      first |-> "red",
      tested |-> [ s \in Sides |-> FALSE ],
      evaded |-> [ s \in Sides |-> FALSE ],
      geo |-> [ s \in Sides |-> FALSE ],
      connected |-> [ s \in Sides |-> FALSE ],
      canceled |-> [ s \in Sides |-> FALSE ],
      did_counter |-> [ s \in Sides |-> FALSE ],
      got_countered |-> [ s \in Sides |-> FALSE ],
      roll |-> [ s \in Sides |-> 0 ],
      dmg |-> [ s \in Sides |-> 0 ],
      life_before |-> [ s \in Sides |-> 0 ],
      energy_before |-> [ s \in Sides |-> 0 ],
      punch_cd_before |-> [ s \in Sides |-> 0 ],
      dodge_active |-> [ s \in Sides |-> FALSE ],
      start |-> [ s \in Sides |-> CharacterInit ],
      burst |-> [ s \in Sides |-> 0 ],
      pre |-> [ s \in Sides |-> CharacterInit ],
      att |-> [ s \in Sides |-> CharacterInit ],
      st |-> [ s \in Sides |-> 0 ],
      greedy |-> [ s \in Sides |-> 0 ],
      st2 |-> [ s \in Sides |-> 0 ],
      r_step |-> [ s \in Sides |-> 0 ],
      waste |-> [ s \in Sides |-> FALSE ],
      r |-> [ s \in Sides |-> 0 ] ]

\* What a resolved tick leaves in `last`: the locals of resolve_step.  F0 are
\* the fighters when the tick begins, F1 when the punches are attempted, F2
\* when the loop begins; pre and att are a fighter as attempt_punch finds it
\* and as it leaves it, burst how far attempt_dodge moved it, greedy what
\* choose_action returns for the state before the tick when it does not explore,
\* r_step what _compute_reward returned and r the reward the Q update is given.
TickRecord(event, a, I, order, F0, F1, F2, S, L, r, far) ==
    [ event |-> event,
      a |-> a,
      started |-> [ s \in Sides |-> I[s].started ],
      arm |-> [ s \in Sides |-> I[s].arm ],
      contact_t |-> [ s \in Sides |-> I[s].contact_t ],
      first |-> order[1],
      tested |-> S.tested,
      evaded |-> S.evaded,
      geo |-> S.geo,
      connected |-> S.connected,
      canceled |-> S.canceled,
      did_counter |-> S.did_counter,
      got_countered |-> S.got_countered,
      roll |-> S.roll,
      dmg |-> S.dmg,
      life_before |-> [ s \in Sides |-> F2[s].life ],
      energy_before |-> [ s \in Sides |-> F1[s].energy ],
      punch_cd_before |-> [ s \in Sides |-> F1[s].punch_cd ],
      dodge_active |-> [ s \in Sides |-> F2[s].dodge_timer > 0 ],
      start |-> F0,
      burst |-> [ s \in Sides |-> IF a[s] = "dodge" THEN dodge_burst(F0[s]) ELSE 0 ],
      pre |-> F1,
      att |-> [ s \in Sides |->
                 IF _in_punch_action(a[s])
                 THEN attempt_punch(F1[s], PunchKind(a[s]), PunchArm(a[s]))
                 ELSE F1[s] ],
      st |-> [ s \in Sides |-> L[s].st ],
      greedy |-> [ s \in Sides |-> choose_action(F0[s], L[s].st, NO_EXPLORE, 0) ],
      st2 |-> [ s \in Sides |-> L[s].st2 ],
      r_step |-> [ s \in Sides |-> L[s].r ],
      waste |-> [ s \in Sides |->
                   low_energy_waste(AfterTimers(S, a, far)[s], a[s]) # 0 ],
      r |-> r ]

\* The draws open to pass i of the loop, out of the input sets P: the evasion
\* roll (when the defender is mid-dodge), the geometry of the arm segment, and
\* for a segment that meets the circle the damage roll and the knockout roll.
\* far: the fighters began the tick ENGAGE_DIST or more apart, out of reach of
\* any arm after one tick's movement.
NoDraw == [ evade |-> FALSE, geo |-> FALSE, roll |-> 0, ko |-> FALSE ]

Draws(S, I, order, i, P, far) ==
    IF ~ReachesHitTest(S, I, order, i) THEN { NoDraw }
    ELSE
      LET p == order[i]
          o == Other(p)
          evs == IF S.F[o].dodge_timer > 0 THEN P.evades ELSE { FALSE }
          \* a segment along a ray that misses the inflated circle cannot
          \* touch the smaller hit circle inside it
          geos == IF far \/ I[p].contact_t = Inf THEN { FALSE } ELSE P.geos
      IN UNION { UNION { IF g
                         THEN { [ evade |-> e, geo |-> TRUE, roll |-> r, ko |-> k ]
                                : r \in P.rolls, k \in P.kos }
                         ELSE { [ NoDraw EXCEPT !.evade = e ] }
                         : g \in geos }
                 : e \in evs }

\* GroundDecal.alive.
alive(d, now_ms) == now_ms < d.born_ms + DECAL_LIFETIME_MS

\* The loop that ends _apply_damage: popleft while over MAX_DECALS.
RECURSIVE CapDecals(_)
CapDecals(D) == IF Len(D) > MAX_DECALS THEN CapDecals(Tail(D)) ELSE D

\* What _apply_damage does to the decals and the trail: the hit decal is
\* appended, the defender's trail starts, the cap is applied.
HitDecal(W, attacker, n) ==
    [ W EXCEPT ![Other(attacker)] = start_trail(@, n),
               !.ground_decals = CapDecals(Append(@, Decal(n, "hit"))) ]

\* The decals of one tick: _apply_damage for every intent that connected,
\* in the order of the intents, then the trail drops of red and of blue.
\* The clock readings of one frame are taken as one value.  A fighter hit in
\* this tick has not moved since start_trail took its position.
DecalStep(W, S, order, n, moved) ==
    LET Wa == IF S.connected[order[1]] THEN HitDecal(W, order[1], n) ELSE W
        Wb == IF S.connected[order[2]] THEN HitDecal(Wa, order[2], n) ELSE Wa
        mv == [ s \in Sides |-> moved[s] /\ ~S.connected[Other(s)] ]
        tr == maybe_drop_trail(Wb.red, n, mv["red"], Wb.ground_decals)
        tb == maybe_drop_trail(Wb.blue, n, mv["blue"], tr.decals)
    IN [ Wb EXCEPT !.red = tr.f, !.blue = tb.f, !.ground_decals = tb.decals ]

\* render without the loop that drops the expired decals.
RenderKeepsAll(D, n) == D

\* Game.render as far as the state goes: popleft while the oldest decal is
\* not alive.
RECURSIVE render(_, _)
render(D, n) ==
    IF D # << >> /\ ~alive(Head(D), n) THEN render(Tail(D), n) ELSE D

\* No punch started yet in this round.
NoPunch == [ s \in Sides |-> [ cd |-> 0, age |-> 0 ] ]

\* The punch history after a frame that did l: a started punch restarts the
\* count, a tick without a start adds one to it (counted up to the cooldown),
\* a reset forgets it.
Punched(l) ==
    IF l.event = "reset" THEN NoPunch
    ELSE IF l.event \notin {"tick", "ko"} THEN punched
    ELSE [ s \in Sides |->
             IF l.started[s] THEN [ cd |-> PunchCd(PunchKind(l.a[s])), age |-> 0 ]
             ELSE IF punched[s].cd = 0 THEN punched[s]
             ELSE [ punched[s] EXCEPT !.age = Min(@ + 1, punched[s].cd) ] ]

\* The new value of every variable.
Commit(W, n, tn, kl, ct, l) ==
    /\ red' = W.red
    /\ blue' = W.blue
    /\ rounds_played' = W.rounds_played
    /\ red_score' = W.red_score
    /\ blue_score' = W.blue_score
    /\ game_over' = W.game_over
    /\ round_over' = W.round_over
    /\ round_over_until_ms' = W.round_over_until_ms
    /\ time_left' = W.time_left
    /\ last_second_tick' = W.last_second_tick
    /\ round_start_ms' = W.round_start_ms
    /\ max_distance_allowance' = W.max_distance_allowance
    /\ now' = n
    /\ tick_no' = tn
    /\ ko_losses' = kl
    /\ countered' = ct
    /\ last' = l
    /\ enc' = enc
    /\ twin' = twin
    /\ ground_decals' = render(W.ground_decals, n)
    /\ plane' = plane
    /\ punched' = Punched(l)

\* The knockout losses after a round ended by knockout.
KoLosses(F) ==
    [ s \in Sides |-> ko_losses[s]
        + (IF F[s].life <= 0 /\ F[Other(s)].life > 0 THEN 1 ELSE 0) ]

\* The ticks since each side was last countered, after a tick with loop state S.
AgeCap == COUNTER_ARM_LOCK_FRAMES + 2
NotCountered == [ s \in Sides |-> [ age |-> 0, arm |-> "none" ] ]

Countered(S, I) ==
    [ s \in Sides |->
        IF S.got_countered[s] THEN [ age |-> 1, arm |-> I[s].arm ]
        ELSE IF countered[s].age >= 1
        THEN [ countered[s] EXCEPT !.age = Min(AgeCap, @ + 1) ]
        ELSE countered[s] ]

\* The state indices get_state returns before and after the tick and the
\* reward _compute_reward returns, per side, out of the input sets P.
Learns(P) ==
    { [ s \in Sides |-> IF s = "red" THEN lr ELSE lb ] :
        lr \in [ st : P.qstates["red"], st2 : P.qstates["red"], r : P.rewards["red"] ],
        lb \in [ st : P.qstates["blue"], st2 : P.qstates["blue"], r : P.rewards["blue"] ] }

\* s_red, s_blue, s2_red, s2_blue and the rewards of _compute_reward as
\* resolve_step computes them for two fighters on one line: the states are
\* encoded from the fighters as the tick finds them (F0) and as tick_timers
\* leaves them, the rewards from the damage dealt and taken in the loop (F2:
\* the fighters when the loop begins, S its final state).
StepLocals(F0, F2, S, a, far, tl, allowance) ==
    LET Fe == AfterTimers(S, a, far)
        dist_before == Abs(F0["blue"].x - F0["red"].x)
        dist_after == Abs(Fe["blue"].x - Fe["red"].x)
    IN [ s \in Sides |->
         [ st |-> get_state_line(F0[s], F0[Other(s)], F0[Other(s)].x - F0[s].x, tl),
           st2 |-> get_state_line(Fe[s], Fe[Other(s)], Fe[Other(s)].x - Fe[s].x, tl),
           r |-> _compute_reward(Fe[s], a[s], S.dmg[s],
                                 Max(0, F2[s].life - S.F[s].life),
                                 dist_before, dist_after, tl,
                                 S.did_counter[s], S.got_countered[s], allowance) ] ]

\* `done = self.resolve_step(); if done: self._end_round_by_ko(now)`
\* Where P.line holds the fighters' x is followed (they stay on the spawn line,
\* no jitter is drawn) and whether the engagement force acts is computed from
\* it; elsewhere it is the input far.  Where P.full holds as well, the state
\* indices and the rewards are computed (StepLocals); elsewhere they are inputs.
\* Each local of the tick is bound once, as a value (\E over a singleton).
TickFrame(W1, n, P) ==
    \E a_red \in P.acts["red"], a_blue \in P.acts["blue"], far_in \in P.fars :
      LET a == [ red |-> a_red, blue |-> a_blue ]
          Fd == DodgeStep(Pair(W1), a)
          M == MoveStep(Fd, [ s \in Sides |-> Fd[s].x ], a, [ s \in Sides |-> 0 ],
                        n - W1.round_start_ms)
      IN \E F1 \in { IF P.line THEN [ s \in Sides |-> [ Fd[s] EXCEPT !.x = M.x[s] ] ] ELSE Fd },
            far \in { IF P.line THEN M.e["red"] # 0 ELSE far_in } :
         \E t_red \in (IF WouldStart(F1["red"], a_red) THEN P.ts ELSE { Inf }),
            t_blue \in (IF WouldStart(F1["blue"], a_blue) THEN P.ts ELSE { Inf }) :
         \E I \in { [ red |-> _start_punch_with_alignment(F1["red"], a_red, t_red),
                      blue |-> _start_punch_with_alignment(F1["blue"], a_blue, t_blue) ] } :
         \E F2 \in { [ s \in Sides |-> I[s].f ] }, order \in { SortIntents(I) } :
         \E S0 \in { LoopInit(F2) } :
         \E d1 \in Draws(S0, I, order, 1, P, far) :
         \E S1 \in { ProcessIntent(S0, I, order, 1, d1) } :
         \E d2 \in Draws(S1, I, order, 2, P, far) :
         \E L_in \in Learns(P), mv \in [ Sides -> P.moved ] :
         \E S2 \in { ProcessIntent(S1, I, order, 2, d2) } :
         \E L \in { IF P.full
                     THEN StepLocals(Pair(W1), F2, S2, a, far, W1.time_left,
                                     W1.max_distance_allowance)
                     ELSE L_in } :
         \E fs \in { FinishStep(W1, S2, a, far, L, P.learn) } :
         \E fin \in { IF P.decals
                       THEN [ fs EXCEPT !.W = DecalStep(@, S2, order, n, mv) ]
                       ELSE fs } :
         \E Wn \in { IF fin.done THEN _end_round_by_ko(fin.W, n) ELSE fin.W },
            l \in { TickRecord(IF fin.done THEN "ko" ELSE "tick", a, I, order, Pair(W1),
                               F1, F2, S2, L, fin.r, far) } :
           Commit(Wn, n, tick_no + 1,
                  IF fin.done THEN KoLosses(Pair(fin.W)) ELSE ko_losses,
                  Countered(S2, I), l)

\* One pass of the loop of Game.run: the clock is read (dt ms after the last
\* frame), _update_clock runs, then a tick is resolved, or the round is reset,
\* or nothing happens.  P names the input sets and the bounds explored.
Frame(P) ==
    \E dt \in (IF game_over THEN P.dts_done
               ELSE IF round_over THEN P.dts_over ELSE P.dts_round) :
      \E n \in { now + dt } :
      \E W1 \in { _update_clock(World, n) } :
      LET timeout == ~round_over /\ W1.round_over
      IN /\ n <= P.maxNow
         /\ IF W1.game_over
            THEN Commit(W1, n, tick_no, ko_losses, countered,
                        NoTick(IF timeout THEN "timeout" ELSE "idle"))
            ELSE IF ~W1.round_over
            THEN tick_no < P.maxTicks /\ TickFrame(W1, n, P)
            ELSE IF n >= W1.round_over_until_ms
            THEN \E Wn \in { _reset_round(W1, n) } :
                   Commit(Wn, n, 0, ko_losses, NotCountered, NoTick("reset"))
            ELSE Commit(W1, n, tick_no, ko_losses, countered,
                        NoTick(IF timeout THEN "timeout" ELSE "wait"))

\* The frame as the clock sees it: Game.run's loop makes another pass and
\* reads the clock dt ms later.  It is enabled exactly when Frame(P) is (the
\* guards are Frame's; a tick always has an outcome), and every step of
\* Frame(P) is one of its steps.
FrameRuns(P) ==
    \E dt \in (IF game_over THEN P.dts_done
               ELSE IF round_over THEN P.dts_over ELSE P.dts_round) :
      LET n == now + dt
          W1 == _update_clock(World, n)
      IN /\ n <= P.maxNow
         /\ (W1.game_over \/ W1.round_over \/ tick_no < P.maxTicks)
         /\ now' = n

\* No call of the encoder is followed.
NoEnc ==
    [ x |-> [ s \in Sides |-> 0 ], y |-> [ s \in Sides |-> 0 ],
      idx |-> [ s \in Sides |-> 0 ], applied |-> FALSE ]

\* No tick is resolved twice.
NoTwin ==
    [ ran |-> FALSE,
      x |-> [ s \in Sides |-> 0 ],
      a |-> [ s \in Sides |-> "do_nothing" ],
      jit |-> [ s \in Sides |-> 0 ],
      elapsed |-> << 0, 0 >>,
      out |-> << >> ]

\* The state after Game.__init__ (the clock reads 0).
Init ==
    /\ red = CharacterInit
    /\ blue = BlueInit
    /\ rounds_played = 0
    /\ red_score = 0
    /\ blue_score = 0
    /\ game_over = FALSE
    /\ round_over = FALSE
    /\ round_over_until_ms = 0
    /\ time_left = ROUND_TIME_SEC
    /\ last_second_tick = 0
    /\ round_start_ms = 0
    /\ max_distance_allowance = ALLOWANCE_START
    /\ now = 0
    /\ tick_no = 0
    /\ ko_losses = [ s \in Sides |-> 0 ]
    /\ countered = NotCountered
    /\ last = NoTick("init")
    /\ enc = NoEnc
    /\ twin = NoTwin
    /\ ground_decals = << >>
    /\ plane = NoPlane
    /\ punched = NoPunch

\* ---------------------------------------------------------- specifications
\* Spec: the whole match.  Every round is played, with at most MaxTicks
\* resolved ticks each; a frame comes 1 s after the last one, or 60 s late
\* (which ends the round by time at once).
MaxTicks == 1
MaxNow == 200000

MatchInputs ==
    [ dts_round |-> { 1000, 60000 }, dts_over |-> { 1000 }, dts_done |-> { 60000 },
      acts |-> [ s \in Sides |-> { "do_nothing", "punch_long_L" } ],
      fars |-> { FALSE },
      ts |-> { 60 },
      evades |-> BOOLEAN,
      geos |-> BOOLEAN,
      rolls |-> { 2000, 16000 },
      kos |-> BOOLEAN,
      learn |-> FALSE,
      line |-> FALSE,
      full |-> FALSE,
      decals |-> FALSE,
      moved |-> { FALSE },
      qstates |-> [ s \in Sides |-> { 0 } ],
      rewards |-> [ s \in Sides |-> { 0 } ],
      maxTicks |-> MaxTicks,
      maxNow |-> MaxNow ]

Next == Frame(MatchInputs)

Spec == Init /\ [][Next]_vars

\* SpecTick: the first ticks of the first round, every action of either
\* fighter and every outcome of the geometry and of the draws.
TickMaxTicks == 1
TickMaxNow == 40

TickInputs ==
    [ dts_round |-> { 11 }, dts_over |-> { 11 }, dts_done |-> { 11 },
      acts |-> [ s \in Sides |-> ActionSet ],
      fars |-> BOOLEAN,
      ts |-> { 20, 60, 200, Inf },
      evades |-> BOOLEAN,
      geos |-> BOOLEAN,
      rolls |-> { 400, 16000 },
      kos |-> BOOLEAN,
      learn |-> FALSE,
      line |-> FALSE,
      full |-> FALSE,
      decals |-> FALSE,
      moved |-> { FALSE },
      qstates |-> [ s \in Sides |-> { 0 } ],
      rewards |-> [ s \in Sides |-> { 0 } ],
      maxTicks |-> TickMaxTicks,
      maxNow |-> TickMaxNow ]

NextTick == Frame(TickInputs)

SpecTick == Init /\ [][NextTick]_vars

\* SpecRound: one round followed tick by tick at 90 frames per second, the
\* fighters within reach of each other throughout.  Red tries a long left
\* punch in every tick; blue tries one or a dodge.
RoundMaxTicks == 88
RoundMaxNow == 1000

RoundInputs ==
    [ dts_round |-> { 11 }, dts_over |-> { 11 }, dts_done |-> { 11 },
      acts |-> [ s \in Sides |-> IF s = "red" THEN { "punch_long_L" }
                                 ELSE { "punch_long_L", "dodge" } ],
      fars |-> { FALSE },
      ts |-> { 60, 90 },
      evades |-> BOOLEAN,
      geos |-> BOOLEAN,
      rolls |-> { 2000 },
      kos |-> { FALSE },
      learn |-> FALSE,
      line |-> FALSE,
      full |-> FALSE,
      decals |-> FALSE,
      moved |-> { FALSE },
      qstates |-> [ s \in Sides |-> { 0 } ],
      rewards |-> [ s \in Sides |-> { 0 } ],
      maxTicks |-> RoundMaxTicks,
      maxNow |-> RoundMaxNow ]

NextRound == Frame(RoundInputs)

SpecRound == Init /\ [][NextRound]_vars

\* SpecFar: one round followed tick by tick, the fighters ENGAGE_DIST or more
\* apart throughout: the engagement force acts in every tick, so energy comes
\* back at REGEN_MOVE and no punch can land.  Red does
\* nothing; blue tries a long left punch or a dodge.
FarMaxTicks == 90
FarMaxNow == 1000

FarInputs ==
    [ dts_round |-> { 11 }, dts_over |-> { 11 }, dts_done |-> { 11 },
      acts |-> [ s \in Sides |-> IF s = "red" THEN { "do_nothing" }
                                 ELSE { "punch_long_L", "dodge" } ],
      fars |-> { TRUE },
      ts |-> { Inf },
      evades |-> BOOLEAN,
      geos |-> BOOLEAN,
      rolls |-> { 2000 },
      kos |-> { FALSE },
      learn |-> FALSE,
      line |-> FALSE,
      full |-> FALSE,
      decals |-> FALSE,
      moved |-> { FALSE },
      qstates |-> [ s \in Sides |-> { 0 } ],
      rewards |-> [ s \in Sides |-> { 0 } ],
      maxTicks |-> FarMaxTicks,
      maxNow |-> FarMaxNow ]

NextFar == Frame(FarInputs)

SpecFar == Init /\ [][NextFar]_vars

\* SpecLearn: the Q-tables over the first ticks of two rounds.  Red does
\* nothing or tries a long left punch, and is seen in either of two encoded
\* states with either of two rewards; blue does nothing.
LearnMaxTicks == 3
LearnMaxNow == 1425

LearnInputs ==
    [ dts_round |-> { 11 }, dts_over |-> { BETWEEN_ROUND_MS }, dts_done |-> { 11 },
      acts |-> [ s \in Sides |-> IF s = "red" THEN { "do_nothing", "punch_long_L" }
                                 ELSE { "do_nothing" } ],
      fars |-> { FALSE },
      ts |-> { 60 },
      evades |-> { FALSE },
      geos |-> BOOLEAN,
      rolls |-> { 2000 },
      kos |-> BOOLEAN,
      learn |-> TRUE,
      line |-> FALSE,
      full |-> FALSE,
      decals |-> FALSE,
      moved |-> { FALSE },
      qstates |-> [ s \in Sides |-> IF s = "red" THEN { 0, 1 } ELSE { 0 } ],
      rewards |-> [ s \in Sides |-> IF s = "red" THEN { 0, 15000 } ELSE { 0 } ],
      maxTicks |-> LearnMaxTicks,
      maxNow |-> LearnMaxNow ]

NextLearn == Frame(LearnInputs)

SpecLearn == Init /\ [][NextLearn]_vars

\* SpecDecay: one round of ticks 11 ms apart, long enough for epsilon to come
\* down to EPSILON_MIN; the fighters stay apart, red does nothing and blue does
\* nothing or steps left.
DecayMaxTicks == 3300
DecayMaxNow == 36300

DecayInputs ==
    [ dts_round |-> { 11 }, dts_over |-> { 11 }, dts_done |-> { 11 },
      acts |-> [ s \in Sides |-> IF s = "red" THEN { "do_nothing" }
                                 ELSE { "do_nothing", "move_left" } ],
      fars |-> { TRUE },
      ts |-> { Inf },
      evades |-> { FALSE },
      geos |-> { FALSE },
      rolls |-> { 2000 },
      kos |-> { FALSE },
      learn |-> TRUE,
      line |-> FALSE,
      full |-> FALSE,
      decals |-> FALSE,
      moved |-> { FALSE },
      qstates |-> [ s \in Sides |-> { 0 } ],
      rewards |-> [ s \in Sides |-> { 0 } ],
      maxTicks |-> DecayMaxTicks,
      maxNow |-> DecayMaxNow ]

NextDecay == Frame(DecayInputs)

SpecDecay == Init /\ [][NextDecay]_vars

\* SpecLine: rounds that begin with a few ticks 11 ms apart and then run out
\* of time, the fighters' positions followed along the spawn line.  Red steps
\* right or tries a long left punch (out of reach), blue does nothing; the
\* engagement force pulls both.  The tables and epsilon are followed.
LineMaxTicks == 5
LineMaxNow == 61500

LineInputs ==
    [ dts_round |-> { 11, 60000 }, dts_over |-> { BETWEEN_ROUND_MS }, dts_done |-> { 11 },
      acts |-> [ s \in Sides |-> IF s = "red" THEN { "move_right", "punch_long_L" }
                                 ELSE { "do_nothing" } ],
      fars |-> { TRUE },
      ts |-> { Inf },
      evades |-> { FALSE },
      geos |-> { FALSE },
      rolls |-> { 2000 },
      kos |-> { FALSE },
      learn |-> TRUE,
      line |-> TRUE,
      full |-> FALSE,
      decals |-> FALSE,
      moved |-> { FALSE },
      qstates |-> [ s \in Sides |-> { 0 } ],
      rewards |-> [ s \in Sides |-> { 15000 } ],
      maxTicks |-> LineMaxTicks,
      maxNow |-> LineMaxNow ]

NextLine == Frame(LineInputs)

SpecLine == Init /\ [][NextLine]_vars

\* SpecDecals: one round of frames 11 ms apart in which both fighters punch
\* whenever they can, every punch that starts connects, and both have always
\* moved far enough to drop their trail; the decals are followed.
DecalMaxTicks == 1500
DecalMaxNow == 16500

DecalInputs ==
    [ dts_round |-> { 11 }, dts_over |-> { BETWEEN_ROUND_MS }, dts_done |-> { 11 },
      acts |-> [ s \in Sides |-> IF s = "red" THEN { "punch_short_L" }
                                 ELSE { "punch_short_R" } ],
      fars |-> { FALSE },
      ts |-> { 60 },
      evades |-> { FALSE },
      geos |-> { TRUE },
      rolls |-> { 400 },
      kos |-> { FALSE },
      learn |-> FALSE,
      line |-> FALSE,
      full |-> FALSE,
      decals |-> TRUE,
      moved |-> { TRUE },
      qstates |-> [ s \in Sides |-> { 0 } ],
      rewards |-> [ s \in Sides |-> { 0 } ],
      maxTicks |-> DecalMaxTicks,
      maxNow |-> DecalMaxNow ]

NextDecals == Frame(DecalInputs)

SpecDecals == Init /\ [][NextDecals]_vars

\* SpecEnc: get_state applied once to fighters anywhere in the arena, with
\* the energies, timers and round clock at and around the edges of the bins.
EncXs == { 0, 12, 13, WIDTH }
EncYs == { 0, 13, HEIGHT }
EncEnergies == { 0, LOW_ENERGY - 1, MAX_ENERGY }
EncCds == { 0, CD_BIN_1 - 1, CD_BIN_1, CD_BIN_2 }
EncTimes == { -5, 15, 16, 46, ROUND_TIME_SEC + 15 }

InitEnc ==
    /\ red \in { [ CharacterInit EXCEPT !.energy = e, !.punch_cd = cd, !.dodge_cd = dc,
                                        !.counter_window = cw, !.arm_lock_left = lk ] :
                   e \in EncEnergies, cd \in EncCds, dc \in { 0, DODGE_CD },
                   cw \in { 0, 1 }, lk \in { 0, COUNTER_ARM_LOCK_FRAMES } }
    /\ blue \in { [ BlueInit EXCEPT !.energy = e ] : e \in EncEnergies }
    /\ rounds_played = 0
    /\ red_score = 0
    /\ blue_score = 0
    /\ game_over = FALSE
    /\ round_over = FALSE
    /\ round_over_until_ms = 0
    /\ time_left \in EncTimes
    /\ last_second_tick = 0
    /\ round_start_ms = 0
    /\ max_distance_allowance = ALLOWANCE_START
    /\ now = 0
    /\ tick_no = 0
    /\ ko_losses = [ s \in Sides |-> 0 ]
    /\ countered = NotCountered
    /\ last = NoTick("init")
    /\ enc \in { [ NoEnc EXCEPT !.x = [ s \in Sides |-> IF s = "red" THEN xr ELSE xb ],
                                 !.y = [ s \in Sides |-> IF s = "red" THEN yr ELSE yb ] ] :
                   xr \in { 0, WIDTH \div 2 }, yr \in { 0 }, xb \in EncXs, yb \in EncYs }
    /\ twin = NoTwin
    /\ ground_decals = << >>
    /\ plane = NoPlane
    /\ punched = NoPunch

\* `s_red = self.red.get_state(self.blue, self.time_left)` and the same for blue.
Encode ==
    /\ ~enc.applied
    /\ enc' = [ enc EXCEPT
                  !.applied = TRUE,
                  !.idx = [ s \in Sides |->
                             get_state(IF s = "red" THEN red ELSE blue,
                                       IF s = "red" THEN blue ELSE red,
                                       enc.x[Other(s)] - enc.x[s],
                                       enc.y[Other(s)] - enc.y[s],
                                       time_left) ] ]
    /\ UNCHANGED << red, blue, rounds_played, red_score, blue_score, game_over,
                    round_over, round_over_until_ms, time_left, last_second_tick,
                    round_start_ms, max_distance_allowance, now, tick_no,
                    ko_losses, countered, last, twin, ground_decals, plane, punched >>

NextEnc == Encode

SpecEnc == InitEnc /\ [][NextEnc]_vars

\* SpecWaste: the first ticks of a round with every state index and reward
\* computed.  Red does nothing; blue tries a long punch with one arm or the
\* other every tick, throws one whenever the cooldown and its energy allow,
\* and so runs out of energy; no punch lands.
WasteMaxTicks == 1500
WasteMaxNow == 16500

WasteInputs ==
    [ dts_round |-> { 11 }, dts_over |-> { BETWEEN_ROUND_MS }, dts_done |-> { 11 },
      acts |-> [ s \in Sides |-> IF s = "red" THEN { "do_nothing" }
                                 ELSE { "punch_long_L", "punch_long_R" } ],
      fars |-> { FALSE },
      ts |-> { 60 },
      evades |-> { FALSE },
      geos |-> { FALSE },
      rolls |-> { 2000 },
      kos |-> { FALSE },
      learn |-> FALSE,
      line |-> TRUE,
      full |-> TRUE,
      decals |-> FALSE,
      moved |-> { FALSE },
      qstates |-> [ s \in Sides |-> { 0 } ],
      rewards |-> [ s \in Sides |-> { 0 } ],
      maxTicks |-> WasteMaxTicks,
      maxNow |-> WasteMaxNow ]

NextWaste == Frame(WasteInputs)

SpecWaste == Init /\ [][NextWaste]_vars

\* SpecClock: rounds whose frames come 0.7 s, 2.5 s or 29 s apart, so that a
\* call of _update_clock counts no second, several seconds, or more seconds
\* than the round has left; the fighters stay apart and do nothing.
ClockMaxTicks == 8
ClockMaxNow == 130000

ClockInputs ==
    [ dts_round |-> { 700, 2500, 29000 }, dts_over |-> { BETWEEN_ROUND_MS },
      dts_done |-> { 700 },
      acts |-> [ s \in Sides |-> { "do_nothing" } ],
      fars |-> { TRUE },
      ts |-> { Inf },
      evades |-> { FALSE },
      geos |-> { FALSE },
      rolls |-> { 2000 },
      kos |-> { FALSE },
      learn |-> FALSE,
      line |-> FALSE,
      full |-> FALSE,
      decals |-> FALSE,
      moved |-> { FALSE },
      qstates |-> [ s \in Sides |-> { 0 } ],
      rewards |-> [ s \in Sides |-> { 0 } ],
      maxTicks |-> ClockMaxTicks,
      maxNow |-> ClockMaxNow ]

NextClock == Frame(ClockInputs)

SpecClock == Init /\ [][NextClock]_vars

\* SpecDuel: the first ticks of a round in which either fighter may dodge and
\* then punch with the left arm while the dodge still runs, so that the punch
\* ordered first can miss by geometry or be evaded while the other connects.
DuelMaxTicks == 3
DuelMaxNow == 40

DuelInputs ==
    [ dts_round |-> { 11 }, dts_over |-> { 11 }, dts_done |-> { 11 },
      acts |-> [ s \in Sides |-> { "do_nothing", "dodge", "punch_short_L" } ],
      fars |-> { FALSE },
      ts |-> { 20, 60 },
      evades |-> BOOLEAN,
      geos |-> BOOLEAN,
      rolls |-> { 400 },
      kos |-> BOOLEAN,
      learn |-> FALSE,
      line |-> FALSE,
      full |-> FALSE,
      decals |-> FALSE,
      moved |-> { FALSE },
      qstates |-> [ s \in Sides |-> { 0 } ],
      rewards |-> [ s \in Sides |-> { 0 } ],
      maxTicks |-> DuelMaxTicks,
      maxNow |-> DuelMaxNow ]

NextDuel == Frame(DuelInputs)

SpecDuel == Init /\ [][NextDuel]_vars

\* SpecKo: the whole match, one tick a round, the fighters punching with
\* different arms (no punch is canceled), either punch ordered first, and every
\* hit free to knock the defender out.
KoMaxTicks == 1
KoMaxNow == 200000

KoInputs ==
    [ dts_round |-> { 1000, 60000 }, dts_over |-> { 1000 }, dts_done |-> { 60000 },
      acts |-> [ s \in Sides |-> IF s = "red" THEN { "punch_long_L" }
                                 ELSE { "do_nothing", "punch_long_R" } ],
      fars |-> { FALSE },
      ts |-> { 20, 60 },
      evades |-> { FALSE },
      geos |-> BOOLEAN,
      rolls |-> { 2000 },
      kos |-> BOOLEAN,
      learn |-> FALSE,
      line |-> FALSE,
      full |-> FALSE,
      decals |-> FALSE,
      moved |-> { FALSE },
      qstates |-> [ s \in Sides |-> { 0 } ],
      rewards |-> [ s \in Sides |-> { 0 } ],
      maxTicks |-> KoMaxTicks,
      maxNow |-> KoMaxNow ]

NextKo == Frame(KoInputs)

SpecKo == Init /\ [][NextKo]_vars

\* SpecLock: the first ticks of a round in which both fighters throw left
\* short punches (the shortest cooldown) whenever they can, long enough for a
\* countered fighter's arm lock to run out and for a second exchange.
LockMaxTicks == 45
LockMaxNow == 500

LockInputs ==
    [ dts_round |-> { 11 }, dts_over |-> { 11 }, dts_done |-> { 11 },
      acts |-> [ s \in Sides |-> IF s = "red" THEN { "punch_short_L" }
                                 ELSE { "do_nothing", "punch_short_L" } ],
      fars |-> { FALSE },
      ts |-> { 20, 60 },
      evades |-> { FALSE },
      geos |-> BOOLEAN,
      rolls |-> { 400 },
      kos |-> { FALSE },
      learn |-> FALSE,
      line |-> FALSE,
      full |-> FALSE,
      decals |-> FALSE,
      moved |-> { FALSE },
      qstates |-> [ s \in Sides |-> { 0 } ],
      rewards |-> [ s \in Sides |-> { 0 } ],
      maxTicks |-> LockMaxTicks,
      maxNow |-> LockMaxNow ]

NextLock == Frame(LockInputs)

SpecLock == Init /\ [][NextLock]_vars

\* SpecLate: rounds whose frames come 11 ms or 50 s apart, so that ticks are
\* resolved before and after time_left has come down to LATE_ROUND_SEC, up to
\* eighteen a round; the fighters stay apart and do nothing.
LateMaxTicks == 18
LateMaxNow == 205000

LateInputs ==
    [ dts_round |-> { 11, 50000 }, dts_over |-> { BETWEEN_ROUND_MS }, dts_done |-> { 11 },
      acts |-> [ s \in Sides |-> { "do_nothing" } ],
      fars |-> { TRUE },
      ts |-> { Inf },
      evades |-> { FALSE },
      geos |-> { FALSE },
      rolls |-> { 2000 },
      kos |-> { FALSE },
      learn |-> FALSE,
      line |-> FALSE,
      full |-> FALSE,
      decals |-> FALSE,
      moved |-> { FALSE },
      qstates |-> [ s \in Sides |-> { 0 } ],
      rewards |-> [ s \in Sides |-> { 0 } ],
      maxTicks |-> LateMaxTicks,
      maxNow |-> LateMaxNow ]

NextLate == Frame(LateInputs)

SpecLate == Init /\ [][NextLate]_vars

\* SpecLive: whole matches in which every frame reads a later clock, 30 s
\* after the last one in a round and BETWEEN_ROUND_MS after it between
\* rounds; red punches, and knocks blue out or does not land.  The bounds lie
\* past the longest match (twelve rounds of 60 s and their waits): no frame
\* before game_over is held back by them.  The loop of Game.run goes on as
\* long as the window is open: weak fairness of the frame, stated on the
\* frame as the clock sees it.
LiveMaxTicks == 2
LiveMaxNow == 800000

LiveInputs ==
    [ dts_round |-> { 30000 }, dts_over |-> { BETWEEN_ROUND_MS },
      dts_done |-> { 300000 },
      acts |-> [ s \in Sides |-> IF s = "red" THEN { "punch_long_L" }
                                 ELSE { "do_nothing" } ],
      fars |-> { FALSE },
      ts |-> { 60 },
      evades |-> { FALSE },
      geos |-> BOOLEAN,
      rolls |-> { 2000 },
      kos |-> { TRUE },
      learn |-> FALSE,
      line |-> FALSE,
      full |-> FALSE,
      decals |-> FALSE,
      moved |-> { FALSE },
      qstates |-> [ s \in Sides |-> { 0 } ],
      rewards |-> [ s \in Sides |-> { 0 } ],
      maxTicks |-> LiveMaxTicks,
      maxNow |-> LiveMaxNow ]

NextLive == Frame(LiveInputs)

LiveRuns == FrameRuns(LiveInputs)

SpecLive == Init /\ [][NextLive]_vars /\ WF_now(LiveRuns)

\* SpecStep: the first ticks of a round between two fighters on one line, from
\* the spawn positions or from 130 px apart, with the state indices and the
\* rewards computed as resolve_step computes them and both tables followed.
StepMaxTicks == 4
StepMaxNow == 44

StepStarts == { << SPAWN_MARGIN, WIDTH - SPAWN_MARGIN >>, << 300, 430 >> }

InitStep ==
    /\ \E xs \in StepStarts :
         /\ red = [ CharacterInit EXCEPT !.x = xs[1] * PX ]
         /\ blue = [ BlueInit EXCEPT !.x = xs[2] * PX ]
    /\ rounds_played = 0
    /\ red_score = 0
    /\ blue_score = 0
    /\ game_over = FALSE
    /\ round_over = FALSE
    /\ round_over_until_ms = 0
    /\ time_left = ROUND_TIME_SEC
    /\ last_second_tick = 0
    /\ round_start_ms = 0
    /\ max_distance_allowance = ALLOWANCE_START
    /\ now = 0
    /\ tick_no = 0
    /\ ko_losses = [ s \in Sides |-> 0 ]
    /\ countered = NotCountered
    /\ last = NoTick("init")
    /\ enc = NoEnc
    /\ twin = NoTwin
    /\ ground_decals = << >>
    /\ plane = NoPlane
    /\ punched = NoPunch

StepInputs ==
    [ dts_round |-> { 11 }, dts_over |-> { BETWEEN_ROUND_MS }, dts_done |-> { 11 },
      acts |-> [ s \in Sides |-> IF s = "red" THEN { "move_right", "punch_long_L" }
                                 ELSE { "do_nothing", "punch_short_L" } ],
      fars |-> { FALSE },
      ts |-> { 60, 90 },
      evades |-> { FALSE },
      geos |-> BOOLEAN,
      rolls |-> { 2000 },
      kos |-> BOOLEAN,
      learn |-> TRUE,
      line |-> TRUE,
      full |-> TRUE,
      decals |-> FALSE,
      moved |-> { FALSE },
      qstates |-> [ s \in Sides |-> { 0 } ],
      rewards |-> [ s \in Sides |-> { 0 } ],
      maxTicks |-> StepMaxTicks,
      maxNow |-> StepMaxNow ]

NextStep == Frame(StepInputs)

SpecStep == InitStep /\ [][NextStep]_vars

\* One tick resolved twice from the same state of the match, the same actions
\* and the same random draws; each execution reads the clock for itself.
TwinElapsed == { 500, 2500 }

InitTwin ==
    /\ red \in { [ CharacterInit EXCEPT !.energy = e ] : e \in { MAX_ENERGY, 1000 } }
    /\ blue = BlueInit
    /\ rounds_played = 0
    /\ red_score = 0
    /\ blue_score = 0
    /\ game_over = FALSE
    /\ round_over = FALSE
    /\ round_over_until_ms = 0
    /\ time_left \in { ROUND_TIME_SEC, LATE_ROUND_SEC }
    /\ last_second_tick = 0
    /\ round_start_ms = 0
    /\ max_distance_allowance = ALLOWANCE_START
    /\ now = 0
    /\ tick_no = 0
    /\ ko_losses = [ s \in Sides |-> 0 ]
    /\ countered = NotCountered
    /\ last = NoTick("init")
    /\ enc = NoEnc
    /\ ground_decals = << >>
    /\ plane = NoPlane
    /\ punched = NoPunch
    /\ twin \in { [ NoTwin EXCEPT
                      !.x = [ s \in Sides |-> IF s = "red" THEN xr * PX ELSE xb * PX ],
                      !.a = [ s \in Sides |-> IF s = "red" THEN ar ELSE ab ],
                      !.jit = [ s \in Sides |-> IF s = "red" THEN j ELSE 0 ],
                      !.elapsed = << e1, e2 >> ] :
                    xr \in { SPAWN_MARGIN, 300 },
                    xb \in { WIDTH - SPAWN_MARGIN, 520, 400, 745 },
                    ar \in { "do_nothing", "move_left", "move_right" },
                    ab \in { "do_nothing", "move_left", "move_right" },
                    j \in { 0, JITTER },
                    e1 \in TwinElapsed, e2 \in TwinElapsed }

\* resolve_step, executed twice from the state the match is in.
ResolveTwice ==
    /\ ~twin.ran
    /\ twin' = [ twin EXCEPT
                   !.ran = TRUE,
                   !.out = [ i \in 1..2 |->
                              StepOnLine([ s \in Sides |-> IF s = "red" THEN red ELSE blue ],
                                         twin.x, twin.a, twin.jit, twin.elapsed[i],
                                         time_left, max_distance_allowance) ] ]
    /\ UNCHANGED << red, blue, rounds_played, red_score, blue_score, game_over,
                    round_over, round_over_until_ms, time_left, last_second_tick,
                    round_start_ms, max_distance_allowance, now, tick_no,
                    ko_losses, countered, last, enc, ground_decals, plane, punched >>

NextTwin == ResolveTwice

SpecTwin == InitTwin /\ [][NextTwin]_vars

\* The position changes alone: ticks and round resets from the spawn, from a
\* corner and from across the arena, the fighters moving, dodging
\* or standing.  Whether a dodge is granted, whether a dodge_timer is running
\* and the clock are inputs here.
PlaneMaxTicks == 2

PlaneStarts ==
    { Spawn,
      [ red |-> [ x |-> 55 * CPX, y |-> 545 * CPX ], blue |-> [ x |-> 179 * CPX, y |-> 545 * CPX ] ],
      [ red |-> [ x |-> 55 * CPX, y |-> 300 * CPX ], blue |-> [ x |-> 745 * CPX, y |-> 545 * CPX ] ] }

PlaneActs ==
    [ red |-> { "move_left", "move_up", "dodge" },
      blue |-> { "move_left", "dodge", "do_nothing" } ]

\* Red's jitter, red's running dodge_timer and whether red's dodge is granted
\* are drawn; blue has no jitter and no dodge_timer running, and its dodge is
\* granted.
PlaneOk == [ red |-> BOOLEAN, blue |-> { TRUE } ]
PlaneJitter == [ red |-> { "none", "y-" }, blue |-> { "none" } ]
PlaneActive == [ red |-> BOOLEAN, blue |-> { FALSE } ]

InitPlane ==
    /\ red = CharacterInit
    /\ blue = BlueInit
    /\ rounds_played = 0
    /\ red_score = 0
    /\ blue_score = 0
    /\ game_over = FALSE
    /\ round_over = FALSE
    /\ round_over_until_ms = 0
    /\ time_left = ROUND_TIME_SEC
    /\ last_second_tick = 0
    /\ round_start_ms = 0
    /\ max_distance_allowance = ALLOWANCE_START
    /\ now = 0
    /\ tick_no = 0
    /\ ko_losses = [ s \in Sides |-> 0 ]
    /\ countered = NotCountered
    /\ last = NoTick("init")
    /\ enc = NoEnc
    /\ twin = NoTwin
    /\ ground_decals = << >>
    /\ \E p0 \in PlaneStarts : plane = [ NoPlane EXCEPT !.event = "init", !.p = p0, !.raw = p0 ]
    /\ punched = NoPunch

\* The position changes of one tick of resolve_step.
MoveInPlane ==
    /\ plane.n < PlaneMaxTicks
    /\ \E a_red \in PlaneActs["red"], a_blue \in PlaneActs["blue"],
          ok_red \in PlaneOk["red"], ok_blue \in PlaneOk["blue"], active_red \in PlaneActive["red"],
          active_blue \in PlaneActive["blue"], jit_red \in PlaneJitter["red"],
          jit_blue \in PlaneJitter["blue"], elapsed \in TwinElapsed :
         LET a == [ red |-> a_red, blue |-> a_blue ]
             ok == [ red |-> ok_red, blue |-> ok_blue ]
             active == [ red |-> active_red, blue |-> active_blue ]
             jit == [ red |-> jit_red, blue |-> jit_blue ]
         IN /\ \A s \in Sides : ~(ok[s] /\ active[s])
            /\ \E M \in { MovePlane(plane.p, a, ok, active, jit, elapsed) } :
                 plane' = [ event |-> "tick", n |-> plane.n + 1, p |-> M.p, a |-> a,
                          dodged |-> M.dodged, pulled |-> M.pulled, raw |-> M.raw,
                          separated |-> M.separated ]
    /\ UNCHANGED << red, blue, rounds_played, red_score, blue_score, game_over,
                    round_over, round_over_until_ms, time_left, last_second_tick,
                    round_start_ms, max_distance_allowance, now, tick_no,
                    ko_losses, countered, last, enc, twin, ground_decals, punched >>

\* Character.reset of both fighters (_reset_round): back to the spawn.
ResetInPlane ==
    /\ plane.event = "tick"
    /\ plane' = [ NoPlane EXCEPT !.event = "reset", !.n = plane.n ]
    /\ UNCHANGED << red, blue, rounds_played, red_score, blue_score, game_over,
                    round_over, round_over_until_ms, time_left, last_second_tick,
                    round_start_ms, max_distance_allowance, now, tick_no,
                    ko_losses, countered, last, enc, twin, ground_decals, punched >>

NextPlane == MoveInPlane \/ ResetInPlane

SpecPlane == InitPlane /\ [][NextPlane]_vars

\* -------------------------------------------------------------- properties
F == [ s \in Sides |-> IF s = "red" THEN red ELSE blue ]
IsTick(l) == l.event \in {"tick", "ko"}

PunchTimer(f, arm) == IF arm = "left" THEN f.punch_timer_left ELSE f.punch_timer_right
ArmLen(f, arm) == IF arm = "left" THEN f.arm_len_left ELSE f.arm_len_right
ArmLock(f, arm) == IF arm = "left" THEN f.arm_lock_left ELSE f.arm_lock_right
Score(s) == IF s = "red" THEN red_score ELSE blue_score

\* C1: in every reachable state both fighters' life lies in [0, max_life].
C1_LifeInRange ==
    \A s \in Sides : 0 <= F[s].life /\ F[s].life <= MAX_LIFE

\* A knockout by a hit larger than the life left, in a round that began with a
\* reset to a carried-over starting life.
C1_Witness ==
    /\ last.event = "ko" /\ rounds_played >= 2
    /\ \E s \in Sides :
         /\ last.dmg[Other(s)] > last.life_before[s]
         /\ last.life_before[s] < MAX_LIFE
         /\ F[s].life = 0

\* C2: in every reachable state both fighters' energy lies in [0, max_energy].
C2_EnergyInRange ==
    \A s \in Sides : 0 <= F[s].energy /\ F[s].energy <= MAX_ENERGY

\* A long punch refused only because the energy does not cover its cost: it
\* is attempted with no cooldown left, and the energy is as it was plus the
\* tick's regeneration; the other fighter, already full, stays at the cap.
C2_Witness ==
    /\ last.event = "tick" /\ last.a["blue"] = "punch_long_L"
    /\ ~last.started["blue"]
    /\ last.punch_cd_before["blue"] = 0
    /\ last.energy_before["blue"] < COST_LONG
    /\ blue.energy = last.energy_before["blue"] + REGEN_MOVE
    /\ last.energy_before["red"] = MAX_ENERGY /\ red.energy = MAX_ENERGY

\* The number of states as the product of the bin counts.
N_STATES ==
    DIST_BINS * DXDY_BINS * ENERGY_BINS * ENERGY_BINS * CD_BINS * TIME_BINS
      * (2 ^ BOOL_BITS)

\* C3: get_state returns an index in [0, N_STATES), N_STATES being the
\* product of the bin counts and 2^BOOL_BITS, for fighters anywhere in the
\* arena, energies in [0, max_energy], any timers and any time_left.
C3_IndexInRange ==
    enc.applied =>
      /\ N_STATES = _calc_n_states
      /\ \A s \in Sides : 0 <= enc.idx[s] /\ enc.idx[s] < N_STATES

\* The full diagonal with full energy (the top distance bin), and for the
\* other fighter the same with no energy left.
C3_Witness ==
    /\ enc.applied
    /\ enc.x = [ s \in Sides |-> IF s = "red" THEN 0 ELSE WIDTH ]
    /\ enc.y = [ s \in Sides |-> IF s = "red" THEN 0 ELSE HEIGHT ]
    /\ red.energy = MAX_ENERGY /\ blue.energy = 0
    /\ time_left < 0
    /\ \A s \in Sides : enc.idx[s] >= (DIST_BINS - 1) * (N_STATES \div DIST_BINS)

\* The value the update law gives, from the values held before the update.
QTarget(old, r, nxt, done) ==
    old + RoundDiv(ALPHA * (r + (IF done THEN 0 ELSE RoundDiv(GAMMA * nxt, 100)) - old),
                   100)

C5_Pre(A) ==
    /\ IsTick(last)
    /\ last.started[A] /\ last.started[Other(A)]
    /\ last.arm[A] = last.arm[Other(A)]
    /\ last.contact_t[A] < last.contact_t[Other(A)]
    /\ last.connected[A]

\* C5: when both fighters start a punch with the same arm, A's contact proxy is
\* strictly smaller and A's punch connects, B's punch is canceled: B deals no
\* damage in the tick, B's extend timer for that arm is 0 and the arm is back
\* at ARM_RETRACT.
C5_CounterCancels ==
    \A A \in Sides :
      C5_Pre(A) =>
        LET B == Other(A)
        IN /\ last.canceled[B]
           /\ ~last.tested[B] /\ ~last.connected[B]
           /\ last.dmg[B] = 0
           /\ F[A].life = last.life_before[A]
           /\ PunchTimer(F[B], last.arm[B]) = 0
           /\ ArmLen(F[B], last.arm[B]) = ARM_RETRACT

C5_Witness == C5_Pre("blue") /\ last.contact_t["red"] # Inf

\* A countered B in the last tick.
C6_Pre(A) ==
    /\ IsTick(last)
    /\ last.started[A] /\ last.started[Other(A)]
    /\ last.arm[A] = last.arm[Other(A)]
    /\ last.first = A
    /\ last.connected[A]

\* C6: when A counters B, the damage applied to B and credited to A is A's
\* un-boosted roll times (1 + COUNTER_DAMAGE_BONUS).
C6_CounterDamage ==
    \A A \in Sides :
      C6_Pre(A) =>
        LET B == Other(A)
        IN /\ last.did_counter[A] /\ last.got_countered[B]
           /\ last.dmg[A] * 100 = last.roll[A] * (100 + COUNTER_DAMAGE_BONUS)
           /\ \/ F[B].life = Max(0, last.life_before[B] - last.dmg[A])
              \/ F[B].life = 0 /\ F[B].knocked_out

C6_Witness ==
    /\ C6_Pre("red") /\ last.roll["red"] > 0
    /\ blue.life > 0 /\ blue.life < last.life_before["blue"]

\* A's punch was tested and evaded in the last tick.
C8_Pre(A) == IsTick(last) /\ last.tested[A] /\ last.evaded[A]

\* C8: a punch tested while the target's dodge window is open and the evasion
\* roll succeeds is a miss: the target's life is unchanged, the attacker is
\* credited no damage, and no counter is applied.
C8_EvadedIsMiss ==
    \A A \in Sides :
      C8_Pre(A) =>
        LET B == Other(A)
        IN /\ last.dodge_active[B]
           /\ ~last.connected[A]
           /\ F[B].life = last.life_before[B]
           /\ last.dmg[A] = 0
           /\ ~last.did_counter[A] /\ ~last.got_countered[B]
           /\ ~last.canceled[B]

\* The evaded punch would have landed and was the first of a same-side pair;
\* the second punch then connects without a counter.
C8_Witness ==
    /\ C8_Pre("red") /\ last.geo["red"]
    /\ last.started["blue"] /\ last.arm["blue"] = last.arm["red"]
    /\ last.first = "red"
    /\ last.connected["blue"]

\* C7 (as amended): a fighter countered in tick T finds the lock counter of
\* the arm it punched with at COUNTER_ARM_LOCK_FRAMES - k when tick T+k begins
\* its punch initiation: nonzero in the COUNTER_ARM_LOCK_FRAMES - 1 ticks after
\* T, zero from tick T + COUNTER_ARM_LOCK_FRAMES on.  (countered[s].age = k in
\* the state a tick starts from says that tick is T+k.)
C7_LockDuration ==
    [][ \A s \in Sides :
          (IsTick(last') /\ countered[s].age >= 1) =>
            ArmLock(F[s], countered[s].arm)
              = Max(0, COUNTER_ARM_LOCK_FRAMES - countered[s].age) ]_vars

\* C7 as stated: the lock is nonzero at the punch initiation of each of the
\* COUNTER_ARM_LOCK_FRAMES ticks after T and zero at the one after.
C7_AsStated ==
    [][ \A s \in Sides :
          (IsTick(last') /\ countered[s].age >= 1) =>
            /\ countered[s].age <= COUNTER_ARM_LOCK_FRAMES
                  => ArmLock(F[s], countered[s].arm) # 0
            /\ countered[s].age = COUNTER_ARM_LOCK_FRAMES + 1
                  => ArmLock(F[s], countered[s].arm) = 0 ]_vars

\* Tick T + COUNTER_ARM_LOCK_FRAMES has been resolved after a counter in T.
C7_Witness ==
    /\ IsTick(last)
    /\ countered["blue"].age = COUNTER_ARM_LOCK_FRAMES + 1
    /\ countered["blue"].arm = "left"

\* C9: a round ended by the clock: the fighter with strictly more life gains
\* exactly one point, the other's score is unchanged and its round_lost is
\* set; with equal lives both gain a point and no round_lost is set;
\* rounds_played grows by one.
C9_TimeoutScoring ==
    [][ last'.event = "timeout" =>
          /\ rounds_played' = rounds_played + 1
          /\ red.life > blue.life =>
                /\ red_score' = red_score + 1 /\ blue_score' = blue_score
                /\ blue'.round_lost /\ ~red'.round_lost
          /\ blue.life > red.life =>
                /\ blue_score' = blue_score + 1 /\ red_score' = red_score
                /\ red'.round_lost /\ ~blue'.round_lost
          /\ red.life = blue.life =>
                /\ red_score' = red_score + 1 /\ blue_score' = blue_score + 1
                /\ ~red'.round_lost /\ ~blue'.round_lost ]_vars

C9_Witness ==
    /\ last.event = "timeout" /\ rounds_played >= 2
    /\ red.life > blue.life /\ blue.round_lost /\ ~red.round_lost
    /\ red_score >= 1

\* The vulnerability against the count of knockout losses; one frame of the match.
C10_VulnCount ==
    \A s \in Sides :
      F[s].knockout_vulnerability = KO_VULN_INIT + KO_VULN_STEP * ko_losses[s]

C10_KnockoutStep ==
    /\ red'.knockout_vulnerability >= red.knockout_vulnerability
    /\ blue'.knockout_vulnerability >= blue.knockout_vulnerability
    /\ (last'.event = "ko" /\ red'.life > 0) =>
          /\ red_score' = red_score + 1 /\ blue_score' = blue_score
          /\ blue'.round_lost /\ ~red'.round_lost
          /\ blue'.knockout_vulnerability = blue.knockout_vulnerability + KO_VULN_STEP
          /\ red'.knockout_vulnerability = red.knockout_vulnerability
    /\ (last'.event = "ko" /\ blue'.life > 0) =>
          /\ blue_score' = blue_score + 1 /\ red_score' = red_score
          /\ red'.round_lost /\ ~blue'.round_lost
          /\ red'.knockout_vulnerability = red.knockout_vulnerability + KO_VULN_STEP
          /\ blue'.knockout_vulnerability = blue.knockout_vulnerability

\* C10: a round ended by knockout gives the fighter still standing exactly one
\* point and the other round_lost and KO_VULN_STEP more knockout
\* vulnerability; the vulnerability never decreases, and is KO_VULN_INIT plus
\* KO_VULN_STEP per knockout loss suffered.
C10_KnockoutRound == []C10_VulnCount /\ [][C10_KnockoutStep]_vars

\* Two knockout losses later, after the reset that follows the second.
C10_Witness ==
    /\ last.event = "reset" /\ ko_losses["red"] = 2
    /\ red.knockout_vulnerability = KO_VULN_INIT + 2 * KO_VULN_STEP
    /\ blue_score >= 2

\* A round has just ended, by the clock or by knockout.
RoundJustEnded(l) == l.event \in {"timeout", "ko"}

\* A lead that the rounds left cannot make up.
Unassailable(rs, bs, rp) ==
    \/ rs > bs + (MAX_ROUNDS - rp)
    \/ bs > rs + (MAX_ROUNDS - rp)

\* C11: when a round ends (by timeout or knockout) with one score ahead of
\* the other by more than MAX_ROUNDS - rounds_played, counted after that
\* round, game_over is true in that same step; and once game_over is true no
\* tick is resolved, no round ends or is reset, and scores and rounds_played
\* stay as they are.
C11_EarlyVictory ==
    [][ /\ (RoundJustEnded(last') /\ Unassailable(red_score', blue_score', rounds_played'))
            => game_over'
        /\ game_over =>
              /\ game_over'
              /\ last'.event = "idle"
              /\ rounds_played' = rounds_played
              /\ red_score' = red_score /\ blue_score' = blue_score
              /\ round_over' = round_over ]_vars

\* The match stopped two rounds short, red three points ahead.
C11_Witness ==
    /\ last.event = "idle" /\ game_over
    /\ rounds_played = MAX_ROUNDS - 2
    /\ red_score = blue_score + 3

\* The carried damage and starting life of a fighter f after a reset, fp.
CarriedOver(f, fp) ==
    /\ fp.carry_damage =
          clamp(f.carry_damage + (IF f.round_lost THEN CARRY_DAMAGE_PER_LOSS ELSE 0),
                0, MAX_LIFE - MIN_START_LIFE)
    /\ (fp.carry_damage = f.carry_damage + CARRY_DAMAGE_PER_LOSS) <=> f.round_lost
    /\ (fp.carry_damage = f.carry_damage) <=> ~f.round_lost
    /\ fp.life = Max(MIN_START_LIFE, MAX_LIFE - fp.carry_damage)
    /\ fp.life >= MIN_START_LIFE

\* C12: at every round reset a fighter's carried damage grows by
\* CARRY_DAMAGE_PER_LOSS iff it lost the round before, stays within
\* [0, MAX_LIFE - MIN_START_LIFE], and the starting life is
\* max(MIN_START_LIFE, MAX_LIFE - carried damage), never below MIN_START_LIFE.
C12_CarryOver ==
    [][ last'.event = "reset" => CarriedOver(red, red') /\ CarriedOver(blue, blue') ]_vars

\* The reset after red's third lost round, blue having lost none.
C12_Witness ==
    /\ last.event = "reset"
    /\ red.carry_damage = 3 * CARRY_DAMAGE_PER_LOSS
    /\ red.life = MAX_LIFE - 3 * CARRY_DAMAGE_PER_LOSS
    /\ blue.carry_damage = 0 /\ blue.life = MAX_LIFE

\* C13: two executions of resolve_step from identical fighter states, with
\* identical actions and the same random values, end with identical positions,
\* lives, energies and rewards of both fighters.
C13_Determinism ==
    twin.ran => twin.out[1] = twin.out[2]

\* A failure condition of attempt_punch(kind, arm) holds for fighter f.
PunchRefused(f, kind, arm) ==
    \/ f.punch_cd # 0
    \/ f.energy < PunchCost(kind)
    \/ f.punch_timer_left # 0 \/ f.punch_timer_right # 0
    \/ ArmLock(f, arm) # 0

\* Fighters f and g agree on everything a punch start writes, and on the locks.
SamePunchState(f, g) ==
    /\ g.energy = f.energy
    /\ g.punch_cd = f.punch_cd
    /\ g.punch_timer_left = f.punch_timer_left
    /\ g.punch_timer_right = f.punch_timer_right
    /\ g.arm_len_left = f.arm_len_left
    /\ g.arm_len_right = f.arm_len_right
    /\ g.arm_lock_left = f.arm_lock_left
    /\ g.arm_lock_right = f.arm_lock_right

\* C14: whenever the punch cooldown is nonzero, or energy is below the
\* variant's cost, or either arm's extend timer is nonzero, or the requested
\* arm is locked, attempt_punch reports no start and leaves energy, punch
\* cooldown, both extend timers, both arm lengths and both arm locks unchanged.
C14_FailureNoOp ==
    IsTick(last) =>
      \A s \in Sides :
        ( /\ _in_punch_action(last.a[s])
          /\ PunchRefused(last.pre[s], PunchKind(last.a[s]), PunchArm(last.a[s])) )
        => /\ ~last.started[s]
           /\ SamePunchState(last.pre[s], last.att[s])

\* A punch refused because the requested arm is still locked after a counter.
C14_Witness ==
    /\ IsTick(last)
    /\ \E s \in Sides :
         /\ _in_punch_action(last.a[s])
         /\ ArmLock(last.pre[s], PunchArm(last.a[s])) > 0
         /\ ~last.started[s]

OtherArm(arm) == IF arm = "left" THEN "right" ELSE "left"

\* C15: when no failure condition holds, attempt_punch(kind, arm) takes exactly
\* the variant's cost from energy, sets the punch cooldown to the variant's
\* cooldown, the requested arm's extend timer to PUNCH_FRAMES and its length to
\* the variant's reach, and leaves the other arm's timer, length and lock as
\* they were.
C15_StartEffect ==
    IsTick(last) =>
      \A s \in Sides :
        LET f == last.pre[s]
            g == last.att[s]
            kind == PunchKind(last.a[s])
            arm == PunchArm(last.a[s])
        IN ( _in_punch_action(last.a[s]) /\ ~PunchRefused(f, kind, arm) )
           => /\ last.started[s] /\ last.arm[s] = arm
              /\ g.energy = f.energy - PunchCost(kind)
              /\ g.punch_cd = PunchCd(kind)
              /\ PunchTimer(g, arm) = PUNCH_FRAMES
              /\ ArmLen(g, arm) = PunchArmLen(kind)
              /\ PunchTimer(g, OtherArm(arm)) = PunchTimer(f, OtherArm(arm))
              /\ ArmLen(g, OtherArm(arm)) = ArmLen(f, OtherArm(arm))
              /\ ArmLock(g, OtherArm(arm)) = ArmLock(f, OtherArm(arm))

\* Red starts a short left punch and blue a medium right punch in one tick.
C15_Witness ==
    /\ IsTick(last)
    /\ last.a["red"] = "punch_short_L" /\ last.started["red"]
    /\ last.att["red"].energy = MAX_ENERGY - COST_SHORT
    /\ last.att["red"].punch_timer_left = PUNCH_FRAMES
    /\ last.a["blue"] = "punch_medium_R" /\ last.started["blue"]
    /\ last.att["blue"].arm_len_right = ARM_MED
    /\ last.att["blue"].arm_len_left = ARM_RETRACT

\* C16: attempt_dodge succeeds iff energy >= DODGE_COST and the dodge cooldown
\* is 0; on success energy drops by DODGE_COST, the dodge cooldown becomes
\* DODGE_CD and the dodge timer DODGE_FRAMES; on failure energy, dodge
\* cooldown, dodge timer and position are unchanged.
C16_DodgeContract ==
    IsTick(last) =>
      \A s \in Sides :
        LET f == last.start[s]
            g == last.pre[s]
            succeeded == g.dodge_timer = DODGE_FRAMES /\ g.dodge_cd = DODGE_CD
        IN last.a[s] = "dodge" =>
             /\ succeeded <=> (f.energy >= DODGE_COST /\ f.dodge_cd = 0)
             /\ succeeded =>
                   /\ g.energy = f.energy - DODGE_COST
                   /\ last.burst[s] > 0
             /\ ~succeeded =>
                   /\ g.energy = f.energy
                   /\ g.dodge_cd = f.dodge_cd
                   /\ g.dodge_timer = f.dodge_timer
                   /\ last.burst[s] = 0

\* A dodge refused for want of energy alone: blue spent it on two long punches.
C16_Witness ==
    /\ IsTick(last)
    /\ last.a["blue"] = "dodge"
    /\ last.start["blue"].dodge_cd = 0
    /\ last.start["blue"].energy < DODGE_COST
    /\ last.pre["blue"].dodge_timer = 0

\* C17: on every resolved tick the epsilon of each fighter becomes
\* max(EPSILON_MIN, epsilon * EPSILON_DECAY), once, whatever the action; it
\* never increases and stays within [EPSILON_MIN, EPSILON_START].
C17_EpsilonDecay ==
    /\ [](\A s \in Sides : EPSILON_MIN <= F[s].epsilon /\ F[s].epsilon <= EPSILON_START)
    /\ [][ /\ red'.epsilon <= red.epsilon /\ blue'.epsilon <= blue.epsilon
           /\ IsTick(last') =>
                 /\ red'.epsilon = Max(EPSILON_MIN, TimesDecay(red.epsilon))
                 /\ blue'.epsilon = Max(EPSILON_MIN, TimesDecay(blue.epsilon))
           /\ ~IsTick(last') =>
                 /\ red'.epsilon = red.epsilon /\ blue'.epsilon = blue.epsilon ]_vars

\* Epsilon has come down to its floor and a further tick left it there.
C17_Witness ==
    /\ IsTick(last)
    /\ last.start["red"].epsilon = EPSILON_MIN /\ red.epsilon = EPSILON_MIN
    /\ last.start["blue"].epsilon = EPSILON_MIN /\ blue.epsilon = EPSILON_MIN
    /\ last.a["blue"] = "move_left"

\* C18: when it does not explore, choose_action returns an index within
\* [0, number of actions) whose Q value is maximal in the row of the state and
\* which is the lowest such index (0 on an all-zero row).
C18_Greedy ==
    IsTick(last) =>
      \A s \in Sides :
        LET row == last.start[s].q_table[last.st[s]]
            g == last.greedy[s]
        IN /\ 0 <= g /\ g < Len(ACTION_NAMES)
           /\ \A a \in ActionSet : row[a] <= RowAt(row, g)
           /\ \A j \in 0..(g - 1) : RowAt(row, j) < RowAt(row, g)
           /\ (\A a \in ActionSet : row[a] = 0) => g = 0

\* In one tick red's row has two positive entries, the larger at punch_long_L
\* (index 8), and blue's row is all zero.
C18_Witness ==
    /\ IsTick(last)
    /\ last.greedy["red"] = 8
    /\ last.start["red"].q_table[last.st["red"]]["do_nothing"] > 0
    /\ last.greedy["blue"] = 0
    /\ \A a \in ActionSet : last.start["blue"].q_table[last.st["blue"]][a] = 0

\* What reset restores in a fighter (fp after, f before), leaving its table
\* and its exploration rate alone.
Restored(f, fp) ==
    /\ fp.q_table = f.q_table
    /\ fp.epsilon = f.epsilon
    /\ fp.x = f.initial_x /\ fp.initial_x = f.initial_x
    /\ fp.energy = MAX_ENERGY
    /\ fp.punch_cd = 0
    /\ fp.dodge_cd = 0 /\ fp.dodge_timer = 0
    /\ fp.punch_timer_left = 0 /\ fp.punch_timer_right = 0
    /\ fp.arm_len_left = ARM_RETRACT /\ fp.arm_len_right = ARM_RETRACT
    /\ fp.arm_lock_left = 0 /\ fp.arm_lock_right = 0
    /\ ~fp.knocked_out
    /\ ~fp.round_lost

\* C19: a round reset leaves each fighter's Q-table and epsilon unchanged and
\* restores the spawn position, full energy, zero punch cooldown, zero dodge
\* cooldown and dodge timer, zero extend timers with both arms at ARM_RETRACT,
\* zero arm locks, knocked_out = false and round_lost = false.
C19_ResetFrame ==
    [][ last'.event = "reset" =>
          /\ Restored(red, red') /\ Restored(blue, blue')
          /\ red'.x = SPAWN_MARGIN * PX
          /\ blue'.x = (WIDTH - SPAWN_MARGIN) * PX ]_vars

\* After a reset: both are back at their spawn with full energy, red with the
\* table and the exploration rate that five ticks left it.
C19_Witness ==
    /\ last.event = "reset"
    /\ red.x = SPAWN_MARGIN * PX /\ blue.x = (WIDTH - SPAWN_MARGIN) * PX
    /\ red.energy = MAX_ENERGY /\ red.punch_cd = 0
    /\ red.q_table[0]["punch_long_L"] > 0 /\ red.q_table[0]["move_right"] > 0
    /\ red.epsilon = TimesDecay(TimesDecay(TimesDecay(TimesDecay(TimesDecay(EPSILON_START)))))

\* Before the round runs out: red has stepped right and been pulled, its punch
\* is still cooling down.
C19_Dirty ==
    /\ last.event = "timeout"
    /\ red.x > (SPAWN_MARGIN + 10) * PX /\ blue.x < (WIDTH - SPAWN_MARGIN - 10) * PX
    /\ red.punch_cd > 0 /\ red.energy < MAX_ENERGY
\* ---------------------------------------------------------------- C20
\* The decals of the list that were there before the frame at time n.
OlderThan(D, n) == SelectSeq(D, LAMBDA d : d.born_ms < n)

\* Seq D ends with seq E.
EndsWith(D, E) ==
    /\ Len(E) <= Len(D)
    /\ E = SubSeq(D, Len(D) - Len(E) + 1, Len(D))

\* The decals are in the order of their birth, oldest first.
OldestFirst(D) == \A i \in 1..(Len(D) - 1) : D[i].born_ms <= D[i + 1].born_ms

C21_RoundsBounded ==
    /\ rounds_played <= MAX_ROUNDS
    /\ (rounds_played = MAX_ROUNDS => game_over)
    /\ (game_over => (rounds_played = MAX_ROUNDS
                       \/ Unassailable(red_score, blue_score, rounds_played)))

\* The twelfth round has just ended by knockout with the scores level: the
\* match is over by the count of rounds alone.
C21_Witness ==
    /\ last.event = "ko" /\ game_over
    /\ rounds_played = MAX_ROUNDS
    /\ red_score = blue_score


\* ---------------------------------------------------------------- C22
\* What the end of a tick adds to the reward of a fighter whose life is lf
\* and whose opponent's life is lo.
TerminalBonus(lf, lo) ==
    IF lo = 0 /\ lf # 0 THEN R_WIN
    ELSE IF lf = 0 /\ lo # 0 THEN R_LOSE
    ELSE 0

TerminalLives == { 0, 1, MAX_LIFE }

\* C22: on a tick at whose end exactly one fighter's life is 0 the reward
\* handed to the survivor's Q update is the step reward plus R_WIN and the
\* other's is the step reward plus R_LOSE; on a tick that leaves no life at 0
\* nothing is added; and the terminal reward adds nothing when both lives are 0.
C22_TerminalReward ==
    /\ IsTick(last) =>
         \A s \in Sides :
           last.r[s] = last.r_step[s] + TerminalBonus(F[s].life, F[Other(s)].life)
    /\ \A lf \in TerminalLives, lo \in TerminalLives, r \in { 0, 15000 } :
         TerminalReward(r, [ CharacterInit EXCEPT !.life = lf ],
                           [ CharacterInit EXCEPT !.life = lo ])
           = r + TerminalBonus(lf, lo)

\* blue has just been knocked out: red is given R_WIN and blue R_LOSE
C22_Witness ==
    /\ last.event = "ko"
    /\ blue.life = 0 /\ red.life > 0
    /\ last.r["red"] = last.r_step["red"] + R_WIN
    /\ last.r["blue"] = last.r_step["blue"] + R_LOSE



\* ---------------------------------------------------------------- C23
\* The state index of fighter f against o, both on one line.
EncodedState(f, o, tl) == get_state_line(f, o, o.x - f.x, tl)

\* Table qp is table q but for the entry [st][a], which holds v.
OnlyEntry(q, qp, st, a, v) ==
    /\ Row(qp, st)[a] = v
    /\ \A i \in DOMAIN q \cup DOMAIN qp : \A b \in ActionSet :
         (i # st \/ b # a) => Row(qp, i)[b] = Row(q, i)[b]

\* C23: a resolved tick updates, in each fighter's own table, the one entry
\* [state encoded from the fighters as the tick finds them, action chosen],
\* with the maximum of the row of the state encoded from the fighters as the
\* tick leaves them (moved, damaged, regenerated, timers advanced); every
\* other entry of both tables is as before.
C23_OneUpdate ==
    [][ IsTick(last') =>
          \A s \in Sides :
            LET f == F[s]
                o == F[Other(s)]
                fp == IF s = "red" THEN red' ELSE blue'
                op == IF s = "red" THEN blue' ELSE red'
                st == EncodedState(f, o, time_left')
                st2 == EncodedState(fp, op, time_left')
            IN /\ last'.st[s] = st
               /\ last'.st2[s] = st2
               /\ OnlyEntry(f.q_table, fp.q_table, st, last'.a[s],
                            QTarget(Row(f.q_table, st)[last'.a[s]], last'.r[s],
                                    MaxQ(Row(f.q_table, st2)),
                                    red'.life = 0 \/ blue'.life = 0)) ]_vars

\* red has just started a long punch from the spawn: the state after the tick
\* differs from the one before it (cooldown, energy, distance), the entry of
\* the state before is written, the row of the state after is not
C23_Witness ==
    /\ last.event = "tick" /\ tick_no >= 2
    /\ last.a["red"] = "punch_long_L" /\ last.started["red"]
    /\ last.st["red"] # last.st2["red"]
    /\ Row(red.q_table, last.st["red"])["punch_long_L"] # 0
    /\ \A b \in ActionSet : Row(red.q_table, last.st2["red"])[b] = 0
    /\ \E b \in ActionSet : Row(blue.q_table, last.st["blue"])[b] # 0


\* ---------------------------------------------------------------- C24
\* C24: a tick is resolved, and time_left counted down, only by a frame that
\* finds the match in a round (neither round_over nor game_over); a frame that
\* finds round_over or game_over either resets the round or leaves both
\* fighters (life, energy, position, timers, Q-table, epsilon), time_left, the
\* scores and rounds_played as they are.
C24_FrozenBetweenRounds ==
    [][ /\ (IsTick(last') \/ last'.event = "timeout") => (~round_over /\ ~game_over)
        /\ (round_over \/ game_over) =>
              /\ last'.event \in {"wait", "idle", "reset"}
              /\ last'.event # "reset" =>
                    /\ red' = red /\ blue' = blue
                    /\ time_left' = time_left
                    /\ red_score' = red_score /\ blue_score' = blue_score
                    /\ rounds_played' = rounds_played
                    /\ round_over' = round_over /\ game_over' = game_over ]_vars

\* a second frame of waiting after a knockout of red, a full second after the
\* round ended, the round clock where the knockout left it
C24_Witness ==
    /\ last.event = "wait" /\ round_over /\ ~game_over
    /\ red.life = 0 /\ red.knocked_out
    /\ now >= round_over_until_ms - BETWEEN_ROUND_MS + 1000
    /\ time_left = ROUND_TIME_SEC - 1


\* ---------------------------------------------------------------- C25
\* C25: the frame that ends a round (by the clock or by knockout) at time t
\* sets the end of the wait to t + BETWEEN_ROUND_MS, and it stays there while
\* the round is over; round_over is cleared only by a round reset, and a round
\* reset is made only by a frame that finds round_over true and game_over
\* false and reads a clock at or past the end of the wait; game_over, once
\* true, stays true and no round reset follows.
C25_ResetAfterDelay ==
    [][ /\ RoundJustEnded(last') =>
              /\ ~round_over /\ round_over'
              /\ round_over_until_ms' = now' + BETWEEN_ROUND_MS
        /\ (round_over /\ round_over') => round_over_until_ms' = round_over_until_ms
        /\ (round_over /\ ~round_over') => last'.event = "reset"
        /\ last'.event = "reset" =>
              /\ round_over /\ ~game_over
              /\ ~round_over' /\ ~game_over'
              /\ now' >= round_over_until_ms
        /\ game_over => (game_over' /\ last'.event # "reset") ]_vars

\* the round reset made by the second frame after a round's end, 2000 ms
\* after it
C25_Witness ==
    /\ last.event = "reset" /\ ~round_over /\ ~game_over
    /\ rounds_played >= 1
    /\ now = round_over_until_ms - BETWEEN_ROUND_MS + 2000

\* the match is over and the frames go on well past the end of the wait
C25_WitnessOver ==
    /\ game_over /\ round_over /\ last.event = "idle"
    /\ now >= round_over_until_ms + 60000


\* ---------------------------------------------------------------- C26
\* No frame before game_over is held back by the bounds of SpecLive.
LiveNotHeldBack ==
    ~game_over => (now + 30000 <= LiveMaxNow /\ tick_no < LiveMaxTicks)

\* C26: with frames that keep coming, each reading a later clock, every round
\* that is being fought is eventually over, and the match eventually reaches
\* game_over, with no more than MAX_ROUNDS rounds played.
C26_Termination ==
    /\ (~round_over ~> round_over)
    /\ <>(game_over /\ rounds_played <= MAX_ROUNDS)

\* a match that went the full twelve rounds, the last ended by the clock
\* without a single punch landed in it
C26_Witness ==
    /\ game_over /\ rounds_played = MAX_ROUNDS
    /\ last.event = "timeout"
    /\ red.life = MAX_LIFE /\ blue.life = MAX_LIFE


\* ---------------------------------------------------------------- C27
\* C27: max_distance_allowance always lies in [120, 260]; a round reset puts
\* it at 260; a tick resolved while time_left <= 10 lowers it by 10, but not
\* below 120; no other frame, and no tick resolved while time_left > 10,
\* changes it.
C27_Allowance ==
    /\ [](/\ ALLOWANCE_FLOOR <= max_distance_allowance
          /\ max_distance_allowance <= ALLOWANCE_START)
    /\ [][ IF last'.event = "reset" THEN max_distance_allowance' = ALLOWANCE_START
           ELSE IF IsTick(last') /\ time_left' <= LATE_ROUND_SEC
           THEN max_distance_allowance'
                  = Max(ALLOWANCE_FLOOR, max_distance_allowance - ALLOWANCE_STEP)
           ELSE max_distance_allowance' = max_distance_allowance ]_vars

\* the second round: the allowance, at 260 again after the reset and through
\* the ticks before the last ten seconds, has come down to the floor and has
\* stayed there for two more ticks
C27_Witness ==
    /\ rounds_played = 1 /\ last.event = "tick"
    /\ time_left = LATE_ROUND_SEC
    /\ tick_no = 18
    /\ max_distance_allowance = ALLOWANCE_FLOOR

\* a tick before the last ten seconds of the second round
C27_WitnessEarly ==
    /\ rounds_played = 1 /\ last.event = "tick" /\ tick_no = 2
    /\ time_left = ROUND_TIME_SEC
    /\ max_distance_allowance = ALLOWANCE_START


\* ---------------------------------------------------------------- C28
Costly == { "dodge", "punch_medium_L", "punch_medium_R", "punch_long_L", "punch_long_R" }

\* What the code does: the penalty is in the reward of a tick exactly when the
\* action is a costly one and the energy the tick leaves the fighter with
\* (after the cost, the regeneration and tick_timers) is below 15.
C28_AsCoded ==
    IsTick(last) =>
      \A s \in Sides :
        last.waste[s] <=> (last.a[s] \in Costly /\ Pair(World)[s].energy < 1500)

\* C28: the low-energy-waste penalty is in a fighter's reward for a tick
\* exactly when its action is a dodge, a medium punch or a long punch and its
\* energy was below 15 when the tick began (when it chose the action).
C28_AsStated ==
    IsTick(last) =>
      \A s \in Sides :
        last.waste[s] <=> (last.a[s] \in Costly /\ last.start[s].energy < 1500)

\* a long punch begun with energy of 50 or more, paid for, and penalised
C28_PenalisedAffordable ==
    /\ IsTick(last) /\ last.a["blue"] \in { "punch_long_L", "punch_long_R" }
    /\ last.started["blue"]
    /\ last.start["blue"].energy >= COST_LONG
    /\ last.waste["blue"]

\* a costly action chosen with energy below 15, refused, and not penalised
C28_LowNotPenalised ==
    /\ IsTick(last) /\ last.a["blue"] \in Costly
    /\ last.start["blue"].energy < 1500
    /\ ~last.waste["blue"]


\* ---------------------------------------------------------------- C29
InArena(p) ==
    /\ (HEAD_SIZE * CPX) \div 2 <= p.x /\ p.x <= WIDTH * CPX - (HEAD_SIZE * CPX) \div 2
    /\ (HEAD_SIZE * CPX) \div 2 <= p.y /\ p.y <= HEIGHT * CPX - (HEAD_SIZE * CPX) \div 2

\* C29: at the end of every tick and after every round reset both fighters'
\* centers lie inside the arena inset by their radius, in x and in y, whatever
\* the dodge bursts, the engagement pull and the separation of the bodies did.
C29_InsideArena ==
    plane.event \in { "tick", "reset" } => \A s \in Sides : InArena(plane.p[s])

\* a tick that would have left a fighter outside the arena without the clamp:
\* by the separation of the bodies, ...
C29_Witness ==
    /\ plane.event = "tick" /\ plane.separated
    /\ \E s \in Sides : ~InArena(plane.raw[s])

\* ... by a dodge burst (red, in the corner, dodging with blue beside it),
C29_WitnessDodge ==
    /\ plane.event = "tick" /\ plane.dodged["red"] /\ plane.n = 1
    /\ plane.a["blue"] = "do_nothing"
    /\ plane.p["red"].y = HEIGHT * CPX - (HEAD_SIZE * CPX) \div 2
    /\ plane.p["red"].x = (HEAD_SIZE * CPX) \div 2

\* ... with the engagement pull acting, and after a reset.
C29_WitnessPull ==
    plane.event = "tick" /\ plane.pulled["red"] /\ ~InArena(plane.raw["red"])

C29_WitnessReset ==
    plane.event = "reset" /\ plane.p = Spawn


\* ---------------------------------------------------------------- C30
\* C30: at the end of every resolved tick a fighter's knocked_out flag is set
\* iff its life is 0, resolve_step returns true (the round ends by knockout)
\* iff some fighter's life is 0, and after the round reset no flag is set.
C30_KnockedOut ==
    /\ IsTick(last) =>
         /\ \A s \in Sides : F[s].knocked_out <=> F[s].life = 0
         /\ (last.event = "ko") <=> (\E s \in Sides : F[s].life = 0)
    /\ last.event = "reset" => \A s \in Sides : ~F[s].knocked_out

\* life emptied by the damage of a hit, no more than the life that was left
C30_Witness ==
    /\ last.event = "ko"
    /\ \E s \in Sides :
         /\ last.connected[Other(s)]
         /\ last.dmg[Other(s)] >= last.life_before[s]
         /\ F[s].life = 0 /\ F[s].knocked_out /\ ~F[Other(s)].knocked_out

\* life emptied by the knockout roll, the damage being less than the life left
C30_WitnessRoll ==
    /\ last.event = "ko"
    /\ \E s \in Sides :
         /\ last.connected[Other(s)]
         /\ last.dmg[Other(s)] < last.life_before[s]
         /\ F[s].life = 0 /\ F[s].knocked_out

\* the reset after a knockout
C30_WitnessReset ==
    /\ last.event = "reset" /\ \E s \in Sides : ko_losses[s] >= 1 /\ F[s].round_lost = FALSE
    /\ \A s \in Sides : ~F[s].knocked_out /\ F[s].life > 0

\* a tick that ended with both fighters standing
C30_WitnessStanding ==
    /\ last.event = "tick" /\ \E s \in Sides : last.connected[s]
    /\ \A s \in Sides : ~F[s].knocked_out /\ F[s].life > 0


\* ---------------------------------------------------------------- C31
\* The seconds a frame finds elapsed since the last second tick.
FullSeconds == (now' - last_second_tick) \div 1000

ClockStep ==
    IF ~round_over
    THEN /\ time_left' = Max(0, time_left - FullSeconds)
         /\ (last'.event = "timeout") <=> (time_left' = 0)
         /\ time_left' = 0 => round_over'
         /\ time_left' > 0 =>
              /\ last_second_tick' = last_second_tick + 1000 * FullSeconds
              /\ IsTick(last')
    ELSE time_left' = (IF last'.event = "reset" THEN ROUND_TIME_SEC ELSE time_left)

\* C31: time_left always lies in [0, ROUND_TIME_SEC] and is 0 only with the
\* round over; a frame of a round in progress lowers it by one for every full
\* 1000 ms between last_second_tick and the clock it reads, but not below 0,
\* and ends the round by time exactly when that leaves 0.
C31_RoundClock ==
    /\ [](/\ 0 <= time_left /\ time_left <= ROUND_TIME_SEC
          /\ time_left = 0 => round_over)
    /\ [][ClockStep]_vars

\* a frame 2.5 s after one that counted no second: three seconds in one call
C31_Witness ==
    /\ rounds_played = 0 /\ last.event = "tick" /\ tick_no = 2
    /\ now = 3200 /\ last_second_tick = 3000
    /\ time_left = ROUND_TIME_SEC - 3

\* a frame that finds more seconds elapsed than the round had left: with two
\* seconds left at 58.7 s, the clock is read at 61.2 s
C31_WitnessLate ==
    /\ rounds_played = 1 /\ last.event = "timeout"
    /\ now = 61200 /\ time_left = 0 /\ round_over


\* ------------------------------------------------------------------- C32
\* A punch tried fewer than CD ticks after the fighter's last started punch.
TooSoon(s) == punched[s].cd > 0 /\ punched[s].age + 1 < punched[s].cd

\* C32: within a round, once a fighter has started a punch with cooldown CD
\* in tick T, no punch of that fighter starts in the ticks T+1 .. T+CD-1, so
\* two started punches of one fighter are at least CD ticks apart.
C32_CooldownSpacing ==
    [][ \A s \in Sides :
          (IsTick(last') /\ _in_punch_action(last'.a[s]) /\ TooSoon(s)) => ~last'.started[s] ]_vars

\* A punch is tried inside the cooldown of the previous one and fails.
C32_Witness ==
    /\ IsTick(last) /\ _in_punch_action(last.a["red"]) /\ ~last.started["red"]
    /\ punched["red"].cd = CD_LONG /\ punched["red"].age = 40

\* The next punch starts exactly CD ticks after the previous one.
C32_WitnessNext ==
    /\ IsTick(last) /\ last.started["red"]
    /\ tick_no = CD_LONG + 1 /\ punched["red"] = [ cd |-> CD_LONG, age |-> 0 ]
    /\ last.punch_cd_before["red"] = 0


\* ------------------------------------------------------------------- C33
\* Both fighters started a punch with the same arm and the first-ordered one
\* did not connect.
FirstMissed ==
    /\ IsTick(last)
    /\ last.started["red"] /\ last.started["blue"]
    /\ last.arm["red"] = last.arm["blue"]
    /\ last.tested[last.first] /\ ~last.connected[last.first]

\* C33: only the first-ordered intent can be credited with a same-side
\* counter.  When both fighters started a punch with the same arm and the
\* first-ordered punch does not connect, the second-ordered punch is not
\* canceled and is hit-tested; if it connects it deals its un-boosted damage
\* and the first fighter's arm is neither canceled nor locked.  In no tick
\* are both fighters marked as having countered.
C33_CounterOnlyFirst ==
    IsTick(last) =>
      LET f == last.first
          g == Other(last.first)
      IN /\ ~(last.did_counter["red"] /\ last.did_counter["blue"])
         /\ ~last.did_counter[g] /\ ~last.got_countered[f] /\ ~last.canceled[f]
         /\ FirstMissed =>
              /\ ~last.canceled[g] /\ last.tested[g]
              /\ ~last.did_counter[f] /\ ~last.got_countered[g]
              /\ last.connected[g] =>
                   /\ last.dmg[g] = last.roll[g]
                   /\ last.dmg[f] = 0
                   /\ PunchTimer(F[f], last.arm[f]) = PUNCH_FRAMES - 1
                   /\ ArmLock(F[f], last.arm[f]) = 0
                   /\ F[f].life \in { 0, Max(0, last.life_before[f] - last.roll[g]) }

\* The first-ordered punch misses by geometry and the second, with the same
\* arm, connects.
C33_Witness ==
    /\ FirstMissed /\ ~last.evaded[last.first]
    /\ last.connected[Other(last.first)]
    /\ F[last.first].life = last.life_before[last.first] - 400

\* The first-ordered punch is evaded by a dodge still running and the second,
\* with the same arm, connects.
C33_WitnessEvaded ==
    /\ FirstMissed /\ last.evaded[last.first]
    /\ last.connected[Other(last.first)]

\* The first-ordered punch connects: the counter is credited to it.
C33_WitnessCounter ==
    /\ IsTick(last) /\ last.did_counter[last.first]
    /\ last.canceled[Other(last.first)]


\* ------------------------------------------------------------------- C34
\* Both fighters are at life 0.
DoubleKo == F["red"].life <= 0 /\ F["blue"].life <= 0

\* C34: double knockout is unreachable.  In every reachable state at most
\* one fighter has life 0; every reset leaves both lives positive; a tick
\* that ends the round by knockout leaves exactly one fighter at life 0 and
\* awards exactly one point, to the other fighter.
C34_NoDoubleKo ==
    /\ [](~DoubleKo)
    /\ [][ /\ last'.event = "reset" => \A s \in Sides : F[s].life' > 0
           /\ last'.event = "ko" =>
                \E s \in Sides :
                  /\ F[s].life' = 0 /\ F[Other(s)].life' > 0
                  /\ Score(Other(s))' = Score(Other(s)) + 1
                  /\ Score(s)' = Score(s)
                  /\ rounds_played' = rounds_played + 1 ]_vars

\* The fighter knocked out by the first-ordered punch had started a punch of
\* its own in the same tick; that punch is not tested.
C34_Witness ==
    /\ last.event = "ko" /\ last.first = "blue"
    /\ last.connected["blue"] /\ F["red"].life = 0
    /\ last.started["red"] /\ ~last.canceled["red"] /\ ~last.tested["red"]
    /\ F["blue"].life > 0 /\ blue_score = 1 /\ red_score = 0

\* A round starts after a knockout with both lives positive.
C34_WitnessReset ==
    /\ last.event = "reset" /\ ko_losses["red"] = 1
    /\ F["red"].life > 0 /\ F["blue"].life > 0


\* ------------------------------------------------------------------- C35
\* The frame closed the round (by the clock or by knockout).
Closes == rounds_played' = rounds_played + 1

\* C35: each round is ended exactly once.  A frame adds 0 or 1 to
\* rounds_played; it adds 1 exactly when it ends a round in progress, by the
\* clock or by knockout (never both: one frame does one of them, and a round
\* that is over is not ended again before its reset); round_over changes
\* only when a round is ended or reset; the frame in which the clock ends
\* the round resolves no tick (it leaves the fighters as they were, but for
\* the loser's round_lost mark).
C35_EndedOnce ==
    [][ /\ rounds_played' \in { rounds_played, rounds_played + 1 }
        /\ Closes <=> last'.event \in {"timeout", "ko"}
        /\ Closes => ~round_over /\ round_over'
        /\ round_over => ~Closes
        /\ (round_over /\ ~round_over') <=> last'.event = "reset"
        /\ (~round_over /\ round_over') => Closes
        /\ last'.event = "timeout" =>
             /\ tick_no' = tick_no /\ time_left' = 0
             /\ \A s \in Sides : [ F[s]' EXCEPT !.round_lost = F[s].round_lost ] = F[s]
        /\ last'.event = "ko" => time_left' > 0 ]_vars

\* The clock ended a round in which a tick had been resolved: the frame
\* resolved none, and the round counts once.
C35_Witness ==
    /\ last.event = "timeout" /\ tick_no = 1 /\ rounds_played = 2
    /\ round_over /\ time_left = 0

\* A round ended by knockout, then reset.
C35_WitnessKo ==
    /\ last.event = "reset" /\ rounds_played = 1 /\ time_left = ROUND_TIME_SEC
    /\ ko_losses["blue"] = 1


\* ------------------------------------------------------------------- C36
\* C36: while the match is not over, the scores differ by at most
\* MAX_ROUNDS - rounds_played and neither score exceeds rounds_played.
C36_ScoreBounds ==
    ~game_over =>
      /\ Abs(red_score - blue_score) <= MAX_ROUNDS - rounds_played
      /\ red_score <= rounds_played /\ blue_score <= rounds_played

\* The largest lead a match in progress can hold: every round so far won by
\* one fighter, and as many rounds left.
C36_Witness ==
    /\ ~game_over /\ 2 * rounds_played = MAX_ROUNDS
    /\ blue_score = rounds_played /\ red_score = 0

\* Tied timeouts award both: the sum of the scores is twice rounds_played.
C36_WitnessTies ==
    /\ ~game_over /\ rounds_played = 3 /\ red_score = 3 /\ blue_score = 3


\* ------------------------------------------------------------------- C37
\* The two intents of the last tick have equal contact proxies.
EqualProxies == IsTick(last) /\ last.contact_t["red"] = last.contact_t["blue"]

\* C37: with equal contact proxies (both +infinity included) red's intent is
\* resolved before blue's; so when both fighters started a punch with the
\* same arm, the proxies are equal and red's punch connects, it is blue's
\* punch that is canceled and blue's arm that is locked, never red's.
C37_TieBreak ==
    EqualProxies =>
      /\ last.first = "red"
      /\ ( /\ last.started["red"] /\ last.started["blue"]
           /\ last.arm["red"] = last.arm["blue"]
           /\ last.connected["red"] ) =>
             /\ last.canceled["blue"] /\ ~last.canceled["red"]
             /\ last.did_counter["red"] /\ last.got_countered["blue"]
             /\ ~last.tested["blue"]
             /\ PunchTimer(F["blue"], last.arm["blue"]) = 0
             /\ ArmLock(F["blue"], last.arm["blue"]) = COUNTER_ARM_LOCK_FRAMES - 1
             /\ PunchTimer(F["red"], last.arm["red"]) = PUNCH_FRAMES - 1
             /\ ArmLock(F["red"], last.arm["red"]) = 0

\* A same-side exchange with equal finite proxies in which red connects.
C37_Witness ==
    /\ EqualProxies /\ last.contact_t["red"] = 60
    /\ last.started["red"] /\ last.started["blue"]
    /\ last.arm["red"] = "right" /\ last.arm["blue"] = "right"
    /\ last.connected["red"] /\ last.canceled["blue"]

\* Both proxies are +infinity and both punches started.
C37_WitnessInf ==
    /\ EqualProxies /\ last.contact_t["red"] = Inf
    /\ last.started["red"] /\ last.started["blue"] /\ last.first = "red"


\* ------------------------------------------------------------------- C38
\* The punch-extend timers of fighter f are as they should be: at most one
\* is running, none exceeds PUNCH_FRAMES, and one runs only during a cooldown.
TimersSound(f) ==
    /\ ~(f.punch_timer_left > 0 /\ f.punch_timer_right > 0)
    /\ f.punch_timer_left \in 0..PUNCH_FRAMES
    /\ f.punch_timer_right \in 0..PUNCH_FRAMES
    /\ (f.punch_timer_left > 0 \/ f.punch_timer_right > 0) => f.punch_cd > 0

\* C38: in every reachable state a fighter has at most one arm with a
\* nonzero punch-extend timer, each extend timer is at most PUNCH_FRAMES, and
\* a nonzero extend timer implies a nonzero punch cooldown.  This holds
\* between ticks and inside a tick, both when attempt_punch is called and
\* right after it.
C38_ExtendTimers ==
    \A s \in Sides :
      /\ TimersSound(F[s])
      /\ IsTick(last) => TimersSound(last.pre[s]) /\ TimersSound(last.att[s])

\* The last tick of the left arm's extension: the timer is at 1, the cooldown
\* still runs, and a punch with the right arm was refused.
C38_Witness ==
    /\ IsTick(last)
    /\ F["blue"].punch_timer_left = 1 /\ F["blue"].punch_timer_right = 0
    /\ F["blue"].punch_cd = CD_LONG - PUNCH_FRAMES + 1
    /\ last.a["blue"] = "punch_long_R" /\ ~last.started["blue"]

\* A later punch just started with the right arm: its timer is at
\* PUNCH_FRAMES after attempt_punch.
C38_WitnessStart ==
    /\ IsTick(last) /\ last.started["blue"] /\ tick_no > 1
    /\ last.att["blue"].punch_timer_right = PUNCH_FRAMES
    /\ last.att["blue"].punch_timer_left = 0
    /\ last.att["blue"].punch_cd = CD_LONG


\* ------------------------------------------------------------------- C39
\* The arm locks of fighter f run inside its punch cooldown.
LocksInsideCooldown(f) ==
    \A arm \in {"left", "right"} :
      ArmLock(f, arm) > 0 => f.punch_cd > 0 /\ f.punch_cd > ArmLock(f, arm)

\* C39: in every reachable state a nonzero arm lock on a fighter implies
\* that the fighter's punch cooldown is nonzero and larger than the lock
\* counter; so no punch attempt is made with the arm locked and the cooldown
\* at 0.
C39_LockInsideCooldown ==
    \A s \in Sides :
      /\ LocksInsideCooldown(F[s])
      /\ IsTick(last) => LocksInsideCooldown(last.pre[s])

\* A countered fighter's arm lock at its last tick, the cooldown of its
\* canceled short punch still running.
C39_Witness ==
    /\ ArmLock(F["blue"], "left") = 1
    /\ F["blue"].punch_cd = CD_SHORT - COUNTER_ARM_LOCK_FRAMES + 1
    /\ countered["blue"].arm = "left"

\* The arm just locked: the lock is one below COUNTER_ARM_LOCK_FRAMES and the
\* cooldown one below CD_SHORT after the tick's tick_timers.
C39_WitnessLocked ==
    /\ IsTick(last) /\ last.got_countered["red"]
    /\ ArmLock(F["red"], "left") = COUNTER_ARM_LOCK_FRAMES - 1
    /\ F["red"].punch_cd = CD_SHORT - 1

\* The countered fighter punches again once the cooldown is over, the lock
\* long gone.
C39_WitnessAgain ==
    /\ IsTick(last) /\ last.started["blue"] /\ tick_no = CD_SHORT + 1
    /\ countered["blue"].arm = "left"


\* ------------------------------------------------------------------- C40
\* The counter-window-active bit (bit 2) of a state index.
CounterBit(idx) == (idx \div 4) % 2

\* C40: a fighter's counter_window is 0 in every reachable state, between
\* ticks and inside a tick, and the counter-window-active bit of every state
\* index the encoder returns (s before the tick, s2 after it) is 0.
C40_NoCounterWindow ==
    \A s \in Sides :
      /\ F[s].counter_window = 0
      /\ IsTick(last) =>
           /\ last.pre[s].counter_window = 0 /\ last.att[s].counter_window = 0
           /\ CounterBit(last.st[s]) = 0 /\ CounterBit(last.st2[s]) = 0

\* A tick in which blue was countered and its arm locked: the state encoded
\* after it has the arm-locked bit set and the counter-window bit clear.
C40_Witness ==
    /\ IsTick(last) /\ last.got_countered["blue"]
    /\ last.st2["blue"] % 2 = 1 /\ CounterBit(last.st2["blue"]) = 0
    /\ F["blue"].counter_window = 0

\* A later tick: the punch-ready bit of the state before it is clear, the
\* encoded indices are not 0.
C40_WitnessLater ==
    /\ IsTick(last) /\ tick_no = 3
    /\ (last.st["red"] \div 16) % 2 = 0 /\ last.st["red"] > 0
    /\ CounterBit(last.st["red"]) = 0

====
